---------------------------- MODULE Spec2Model ----------------------------
(***************************************************************************)
(* A model of psycopg/types/datetime.py: the dumpers and loaders that      *)
(* convert date, time, datetime and timedelta values to and from the text  *)
(* and binary wire formats of PostgreSQL.                                  *)
(*                                                                         *)
(* Values are modelled as the Python objects the code handles:             *)
(*   - bytes in text format are sequences of one-character strings,        *)
(*   - bytes in binary format are sequences of numbers 0..255,             *)
(*   - Python integers that may exceed 31 bits (the int64 microseconds of  *)
(*     the wire, day counts built from an int32) are two's complement      *)
(*     numbers of IntLimbs base-256 digits, least significant first, so    *)
(*     that no arithmetic of the model wraps,                              *)
(*   - a call returns Return(v) or raises Raise(exception, detail).        *)
(***************************************************************************)
EXTENDS Integers, Sequences, FiniteSets, TLC

(***************************************************************************)
(* Bounds of the model.                                                    *)
(***************************************************************************)
\* Base-256 digits of a Python integer of the model (72 bits: the largest
\* magnitude computed is below 2^64).
IntLimbs == 9
\* Years sampled at each edge of the calendar and on each side of the
\* PostgreSQL epoch year.
NYears == 1
\* Day offsets / microseconds sampled on each side of every boundary of a
\* binary input.
NEdge == 2

(***************************************************************************)
(* Calls: what a method returns or raises.                                 *)
(***************************************************************************)
Return(v) == [exc |-> "None", val |-> v]
Raise(e, m) == [exc |-> e, val |-> m]
Returned(r) == r.exc = "None"

None == <<>>

Min(a, b) == IF a < b THEN a ELSE b
Max(a, b) == IF a > b THEN a ELSE b
Abs(a) == IF a < 0 THEN -a ELSE a

(***************************************************************************)
(* Python integers beyond 31 bits.                                         *)
(***************************************************************************)
\* The Python integer n (n a small number of the model).
W(n) ==
    LET ext == IF n < 0 THEN 255 ELSE 0
    IN  [i \in 1..IntLimbs |->
            IF i = 1 THEN n % 256
            ELSE IF i = 2 THEN (n \div 256) % 256
            ELSE IF i = 3 THEN (n \div 65536) % 256
            ELSE IF i = 4 THEN (n \div 16777216) % 256
            ELSE ext]

WIsNeg(a) == a[Len(a)] >= 128

RECURSIVE WAddC(_, _, _, _, _)
WAddC(a, b, i, c, acc) ==
    IF i > Len(a) THEN acc
    ELSE LET t == a[i] + b[i] + c
         IN  WAddC(a, b, i + 1, t \div 256, Append(acc, t % 256))

WNot(a) == [i \in 1..Len(a) |-> 255 - a[i]]

\* a + b, -a, a - b
WAdd(a, b) == WAddC(a, b, 1, 0, <<>>)
WNeg(a) == WAddC(WNot(a), [i \in 1..Len(a) |-> 0], 1, 1, <<>>)
WSub(a, b) == WAddC(a, WNot(b), 1, 1, <<>>)

RECURSIVE WMulC(_, _, _, _, _)
WMulC(a, k, i, c, acc) ==
    IF i > Len(a) THEN acc
    ELSE LET t == a[i] * k + c
         IN  WMulC(a, k, i + 1, t \div 256, Append(acc, t % 256))

\* a * k, k a small number
WMul(a, k) ==
    IF k >= 0 THEN WMulC(a, k, 1, 0, <<>>) ELSE WNeg(WMulC(a, -k, 1, 0, <<>>))

\* Whether a is a number of the model (fits 31 bits and a sign), and that
\* number.
WSmall(a) ==
    \/ a[4] < 128 /\ \A i \in 5..Len(a) : a[i] = 0
    \/ a[4] >= 128 /\ \A i \in 5..Len(a) : a[i] = 255
WInt(a) ==
    a[1] + 256 * a[2] + 65536 * a[3]
    + 16777216 * (IF a[4] >= 128 THEN a[4] - 256 ELSE a[4])

\* a < b, a <= b
WLess(a, b) ==
    IF WSmall(a) /\ WSmall(b) THEN WInt(a) < WInt(b) ELSE WIsNeg(WSub(a, b))
WLeq(a, b) == ~WLess(b, a)

RECURSIVE WDivStep(_, _, _, _)
WDivStep(a, k, i, rem) ==
    IF i = 0 THEN [q |-> <<>>, r |-> rem]
    ELSE LET cur == rem * 256 + a[i]
             rest == WDivStep(a, k, i - 1, cur % k)
         IN  [q |-> Append(rest.q, cur \div k), r |-> rest.r]

\* divmod(a, k) of Python, k a small positive number: the quotient is
\* rounded down, the remainder is in 0..k-1.
WDivMod(a, k) ==
    IF WSmall(a) THEN [q |-> W(WInt(a) \div k), r |-> WInt(a) % k]
    ELSE IF ~WIsNeg(a) THEN WDivStep(a, k, Len(a), 0)
    ELSE LET m == WDivStep(WNeg(a), k, Len(a), 0)
         IN  IF m.r = 0 THEN [q |-> WNeg(m.q), r |-> 0]
             ELSE [q |-> WSub(WNeg(m.q), W(1)), r |-> k - m.r]

\* Whether a fits the C int / the signed n-byte integer.
WFitsBytes(a, n) ==
    \/ a[n] < 128 /\ \A i \in (n + 1)..Len(a) : a[i] = 0
    \/ a[n] >= 128 /\ \A i \in (n + 1)..Len(a) : a[i] = 255
FitsCInt(a) == WFitsBytes(a, 4)

(***************************************************************************)
(* struct: signed big-endian integers ("!i", "!q", "!qi", "!qii").         *)
(***************************************************************************)
\* The n bytes of a, most significant first.
PackBE(a, n) == [i \in 1..n |-> a[n + 1 - i]]
\* The integer of the bytes b, sign extended.
UnpackBE(b) ==
    LET n == Len(b)
        ext == IF b[1] >= 128 THEN 255 ELSE 0
    IN  [i \in 1..IntLimbs |-> IF i <= n THEN b[n + 1 - i] ELSE ext]

pack_int4(a) == PackBE(a, 4)
pack_int8(a) == PackBE(a, 8)
unpack_int4(b) == UnpackBE(b)
unpack_int8(b) == UnpackBE(b)

(***************************************************************************)
(* datetime.date of the standard library.                                  *)
(***************************************************************************)
MINYEAR == 1
MAXYEAR == 9999

IsLeap(y) == y % 4 = 0 /\ (y % 100 # 0 \/ y % 400 = 0)

DAYS_IN_MONTH == <<31, 28, 31, 30, 31, 30, 31, 31, 30, 31, 30, 31>>

DaysInMonth(y, m) == IF m = 2 /\ IsLeap(y) THEN 29 ELSE DAYS_IN_MONTH[m]

RECURSIVE DAYS_BEFORE_MONTH(_)
DAYS_BEFORE_MONTH(m) ==
    IF m = 1 THEN 0 ELSE DAYS_BEFORE_MONTH(m - 1) + DAYS_IN_MONTH[m - 1]

DaysBeforeYear(y) ==
    LET p == y - 1 IN p * 365 + p \div 4 - p \div 100 + p \div 400

DaysBeforeMonth(y, m) ==
    DAYS_BEFORE_MONTH(m) + (IF m > 2 /\ IsLeap(y) THEN 1 ELSE 0)

\* A date object.
Date(y, m, d) == [year |-> y, month |-> m, day |-> d]

ValidDate(y, m, d) ==
    /\ MINYEAR <= y /\ y <= MAXYEAR
    /\ 1 <= m /\ m <= 12
    /\ 1 <= d /\ d <= DaysInMonth(y, m)

\* date(year, month, day): ValueError when a field is out of range.
date_new(y, m, d) ==
    IF ValidDate(y, m, d) THEN Return(Date(y, m, d))
    ELSE Raise("ValueError", "out of range")

\* date.toordinal()
toordinal(dt) ==
    DaysBeforeYear(dt.year) + DaysBeforeMonth(dt.year, dt.month) + dt.day

date_min == Date(MINYEAR, 1, 1)
date_max == Date(MAXYEAR, 12, 31)
MAXORDINAL == toordinal(date_max)

\* The year, month and day of the ordinal n, 1 <= n <= MAXORDINAL.
ord2ymd(n0) ==
    LET n   == n0 - 1
        n400 == n \div 146097
        r400 == n % 146097
        n100 == r400 \div 36524
        r100 == r400 % 36524
        n4   == r100 \div 1461
        r4   == r100 % 1461
        n1   == r4 \div 365
        r1   == r4 % 365
        year == n400 * 400 + 1 + n100 * 100 + n4 * 4 + n1
    IN  IF n1 = 4 \/ n100 = 4 THEN Date(year - 1, 12, 31)
        ELSE LET leapyear == n1 = 3 /\ (n4 # 24 \/ n100 = 3)
                 month0 == (r1 + 50) \div 32
                 prec0 == DAYS_BEFORE_MONTH(month0)
                          + (IF month0 > 2 /\ leapyear THEN 1 ELSE 0)
                 back == prec0 > r1
                 month == IF back THEN month0 - 1 ELSE month0
                 preceding ==
                     IF back
                     THEN prec0 - (DAYS_IN_MONTH[month]
                                   + (IF month = 2 /\ leapyear THEN 1 ELSE 0))
                     ELSE prec0
             IN  Date(year, month, r1 - preceding + 1)

\* date.fromordinal(n), n a Python integer.  The C implementation converts
\* its argument to a C int first and raises OverflowError when it does not
\* fit; the pure Python implementation (b.cdatetime = FALSE) raises
\* ValueError for every ordinal out of range.
date_fromordinal(b, n) ==
    IF b.cdatetime /\ ~FitsCInt(n)
    THEN Raise("OverflowError", "signed integer is greater than maximum")
    ELSE IF WLess(n, W(1)) THEN Raise("ValueError", "ordinal must be >= 1")
    ELSE IF WLess(W(MAXORDINAL), n) THEN Raise("ValueError", "year out of range")
    ELSE Return(ord2ymd(WInt(n)))

(***************************************************************************)
(* datetime.timedelta, timezone and time of the standard library.          *)
(***************************************************************************)
MAX_DELTA_DAYS == 999999999

\* A timedelta object: 0 <= seconds < 86400, 0 <= microseconds < 1000000.
Timedelta(d, s, us) == [days |-> d, seconds |-> s, microseconds |-> us]

\* timedelta(days=d, seconds=s, microseconds=us) called with Python
\* integers: the normalised value, or OverflowError when its days exceed
\* MAX_DELTA_DAYS in magnitude.
timedelta_new(d, s, us) ==
    LET m == WDivMod(us, 1000000)
        n == WDivMod(WAdd(s, m.q), 86400)
        days == WAdd(d, n.q)
    IN  IF WLess(days, W(0 - MAX_DELTA_DAYS)) \/ WLess(W(MAX_DELTA_DAYS), days)
        THEN Raise("OverflowError", "days must have magnitude <= 999999999")
        ELSE Return(Timedelta(WInt(days), n.r, m.r))

\* int(td.total_seconds()), for a timedelta of few days: the seconds of td,
\* rounded towards zero.
int_total_seconds(td) ==
    LET whole == td.days * 86400 + td.seconds
    IN  IF td.microseconds # 0 /\ whole < 0 THEN whole + 1 ELSE whole

\* bool(td)
timedelta_bool(td) == td # Timedelta(0, 0, 0)

\* tzinfo: None, or a timezone of a fixed offset from UTC.
NoTz == [aware |-> FALSE]
FixedTz(td) == [aware |-> TRUE, utcoffset |-> td]
utc == FixedTz(Timedelta(0, 0, 0))

\* timezone(offset): the offset must be strictly between -24 and 24 hours
\* and, before Python 3.7, a whole number of minutes.
timezone_new(b, td) ==
    IF ~(td.days \in {-1, 0}) \/ td = Timedelta(-1, 0, 0)
    THEN Raise("ValueError", "offset must be strictly between -24 and 24 hours")
    ELSE IF ~b.py37 /\ (td.microseconds # 0 \/ td.seconds % 60 # 0)
    THEN Raise("ValueError", "offset must be a whole number of minutes")
    ELSE Return(FixedTz(td))

\* A time object.
Time(h, mi, s, us, tz) ==
    [hour |-> h, minute |-> mi, second |-> s, microsecond |-> us, tzinfo |-> tz]

\* time(hour, minute, second, microsecond, tzinfo) called with Python
\* integers.  The C implementation converts each to a C int first
\* (OverflowError); out of range fields are a ValueError.
time_call(b, h, mi, s, us, tz) ==
    IF b.cdatetime /\ ~(FitsCInt(h) /\ FitsCInt(mi) /\ FitsCInt(s) /\ FitsCInt(us))
    THEN Raise("OverflowError", "Python int too large to convert to C int")
    ELSE IF /\ WSmall(h) /\ WSmall(mi) /\ WSmall(s) /\ WSmall(us)
            /\ WInt(h) \in 0..23 /\ WInt(mi) \in 0..59 /\ WInt(s) \in 0..59
            /\ WInt(us) \in 0..999999
    THEN Return(Time(WInt(h), WInt(mi), WInt(s), WInt(us), tz))
    ELSE Raise("ValueError", "out of range")

\* obj.utcoffset() of a time or datetime with a tzinfo (None without).
utcoffset(obj) == obj.tzinfo.utcoffset

(***************************************************************************)
(* Module constants.                                                       *)
(***************************************************************************)
pg_date_epoch_days == toordinal(Date(2000, 1, 1))
py_date_min_days == toordinal(date_min)


(***************************************************************************)
(* Text: bytes in text format are sequences of characters.                 *)
(***************************************************************************)
DIGITS == <<"0", "1", "2", "3", "4", "5", "6", "7", "8", "9">>

IsDigit(c) == \E i \in 1..10 : DIGITS[i] = c
DigitVal(c) == (CHOOSE i \in 1..10 : DIGITS[i] = c) - 1
\* ASCII whitespace (but the vertical tab, which the model does not write).
IsSpace(c) == c \in {" ", "\t", "\n", "\r", "\f"}

\* data[a:b] and data[a:] of Python, a and b not negative.
Slice(s, a, b) == SubSeq(s, a + 1, Min(b, Len(s)))
SliceFrom(s, a) == SubSeq(s, a + 1, Len(s))

startswith(s, p) == Len(s) >= Len(p) /\ SubSeq(s, 1, Len(p)) = p
endswith(s, p) == Len(s) >= Len(p) /\ SubSeq(s, Len(s) - Len(p) + 1, Len(s)) = p

\* "%d" % n for n >= 0, and zero padded to a width ("%0wd").
RECURSIVE DecStr(_)
DecStr(n) ==
    IF n < 10 THEN <<DIGITS[n + 1]>>
    ELSE DecStr(n \div 10) \o <<DIGITS[(n % 10) + 1]>>

RECURSIVE ZeroPad(_, _)
ZeroPad(s, w) == IF Len(s) >= w THEN s ELSE ZeroPad(<<"0">> \o s, w)

\* "%+d" % n
SignedStr(n) == IF n < 0 THEN <<"-">> \o DecStr(-n) ELSE <<"+">> \o DecStr(n)

RECURSIVE LStrip(_)
LStrip(s) == IF s # <<>> /\ IsSpace(s[1]) THEN LStrip(Tail(s)) ELSE s
RECURSIVE RStrip(_)
RStrip(s) ==
    IF s # <<>> /\ IsSpace(s[Len(s)]) THEN RStrip(SubSeq(s, 1, Len(s) - 1)) ELSE s

\* Whether s is digits separated by single underscores (the body of an
\* integer literal), and its value.
RECURSIVE IsIntBody(_, _)
IsIntBody(s, afterDigit) ==
    IF s = <<>> THEN afterDigit
    ELSE IF IsDigit(s[1]) THEN IsIntBody(Tail(s), TRUE)
    ELSE s[1] = "_" /\ afterDigit /\ Len(s) > 1 /\ IsDigit(s[2])
         /\ IsIntBody(Tail(s), FALSE)

RECURSIVE IntBodyVal(_, _, _)
IntBodyVal(s, i, acc) ==
    IF i > Len(s) THEN acc
    ELSE IF s[i] = "_" THEN IntBodyVal(s, i + 1, acc)
    ELSE IntBodyVal(s, i + 1, WAdd(WMul(acc, 10), W(DigitVal(s[i]))))

\* The same value, for a body of at most 9 characters.
RECURSIVE SmallBodyVal(_, _, _)
SmallBodyVal(s, i, acc) ==
    IF i > Len(s) THEN acc
    ELSE IF s[i] = "_" THEN SmallBodyVal(s, i + 1, acc)
    ELSE SmallBodyVal(s, i + 1, acc * 10 + DigitVal(s[i]))

\* int(s) of a bytes object: surrounding whitespace, an optional sign, then
\* decimal digits; ValueError otherwise.  The value is a Python integer.
py_int(s0) ==
    LET s == RStrip(LStrip(s0))
        signed == s # <<>> /\ s[1] \in {"+", "-"}
        body == IF signed THEN Tail(s) ELSE s
    IN  IF ~IsIntBody(body, FALSE) THEN Raise("ValueError", "invalid literal for int()")
        ELSE LET v == IF Len(body) <= 9 THEN W(SmallBodyVal(body, 1, 0))
                      ELSE IntBodyVal(body, 1, W(0))
             IN  Return(IF signed /\ s[1] = "-" THEN WNeg(v) ELSE v)

\* date(year, month, day) called with Python integers.  The C
\* implementation converts each argument to a C int first (OverflowError);
\* out of range fields are a ValueError.
date_call(b, y, m, d) ==
    IF b.cdatetime /\ ~(FitsCInt(y) /\ FitsCInt(m) /\ FitsCInt(d))
    THEN Raise("OverflowError", "Python int too large to convert to C int")
    ELSE IF WSmall(y) /\ WSmall(m) /\ WSmall(d)
    THEN date_new(WInt(y), WInt(m), WInt(d))
    ELSE Raise("ValueError", "out of range")

\* str(d) of a date: "%04d-%02d-%02d"
date_str(d) ==
    ZeroPad(DecStr(d.year), 4) \o <<"-">> \o ZeroPad(DecStr(d.month), 2)
    \o <<"-">> \o ZeroPad(DecStr(d.day), 2)

(***************************************************************************)
(* Regular expressions of the text loaders: a match is the position after  *)
(* the text matched so far and the groups captured so far (None for a      *)
(* group that took no part in the match).                                  *)
(***************************************************************************)
LOWER ==
    {"a", "b", "c", "d", "e", "f", "g", "h", "i", "j", "k", "l", "m", "n",
     "o", "p", "q", "r", "s", "t", "u", "v", "w", "x", "y", "z"}
UPPER ==
    {"A", "B", "C", "D", "E", "F", "G", "H", "I", "J", "K", "L", "M", "N",
     "O", "P", "Q", "R", "S", "T", "U", "V", "W", "X", "Y", "Z"}
IsAlpha(c) == c \in LOWER \/ c \in UPPER
\* [a-z0-9] under re.IGNORECASE
IsAlnum(c) == IsDigit(c) \/ IsAlpha(c)

\* The position after the digits (the letters) of s that start at i.
RECURSIVE DigitsEnd(_, _)
DigitsEnd(s, i) == IF i <= Len(s) /\ IsDigit(s[i]) THEN DigitsEnd(s, i + 1) ELSE i
RECURSIVE AlphaEnd(_, _)
AlphaEnd(s, i) == IF i <= Len(s) /\ IsAlpha(s[i]) THEN AlphaEnd(s, i + 1) ELSE i
RECURSIVE SpaceEnd(_, _)
SpaceEnd(s, i) == IF i <= Len(s) /\ IsSpace(s[i]) THEN SpaceEnd(s, i + 1) ELSE i

MatchStart == [ok |-> TRUE, pos |-> 1, groups |-> <<>>]
NoMatch == [ok |-> FALSE, pos |-> 0, groups |-> <<>>]

\* The match m extended to the position e, with the group g or without.
Advance(m, e) == [m EXCEPT !.pos = e]
Capture(m, e, g) == [m EXCEPT !.pos = e, !.groups = Append(@, g)]

\* (\d+)
mDigits(s, m) ==
    IF m.ok /\ DigitsEnd(s, m.pos) > m.pos
    THEN Capture(m, DigitsEnd(s, m.pos), SubSeq(s, m.pos, DigitsEnd(s, m.pos) - 1))
    ELSE NoMatch

\* (\d+|[a-z]+)
mWord(s, m) ==
    IF ~m.ok THEN NoMatch
    ELSE IF DigitsEnd(s, m.pos) > m.pos THEN mDigits(s, m)
    ELSE IF AlphaEnd(s, m.pos) > m.pos
    THEN Capture(m, AlphaEnd(s, m.pos), SubSeq(s, m.pos, AlphaEnd(s, m.pos) - 1))
    ELSE NoMatch

\* [a-z]+
mAlpha(s, m) ==
    IF m.ok /\ AlphaEnd(s, m.pos) > m.pos THEN Advance(m, AlphaEnd(s, m.pos))
    ELSE NoMatch

\* [^a-z0-9]
mSep(s, m) ==
    IF m.ok /\ m.pos <= Len(s) /\ ~IsAlnum(s[m.pos]) THEN Advance(m, m.pos + 1)
    ELSE NoMatch

\* (?: T | [^a-z0-9] )
mSepT(s, m) ==
    IF m.ok /\ m.pos <= Len(s) /\ (s[m.pos] \in {"T", "t"} \/ ~IsAlnum(s[m.pos]))
    THEN Advance(m, m.pos + 1)
    ELSE NoMatch

\* A character of the set cs, captured: ([-+])
mOneOf(s, m, cs) ==
    IF m.ok /\ m.pos <= Len(s) /\ s[m.pos] \in cs
    THEN Capture(m, m.pos + 1, <<s[m.pos]>>)
    ELSE NoMatch

\* (?: c (\d+) )? taken: the character c and digits.
mCharDigits(s, m, c) ==
    IF m.ok /\ m.pos <= Len(s) /\ s[m.pos] = c THEN mDigits(s, Advance(m, m.pos + 1))
    ELSE NoMatch

\* (?: c (\d+) )? when what follows it cannot start with c: taken if it
\* matches, and skipped otherwise.
mOptCharDigits(s, m, c) ==
    IF ~m.ok THEN NoMatch
    ELSE IF mCharDigits(s, m, c).ok THEN mCharDigits(s, m, c)
    ELSE Capture(m, m.pos, None)

\* $: the end of the text, or the newline that ends it.
mEnd(s, m) ==
    IF m.ok /\ (m.pos = Len(s) + 1 \/ (m.pos = Len(s) /\ s[m.pos] = "\n")) THEN m
    ELSE NoMatch

\* (\d+) [^a-z0-9] (\d+) [^a-z0-9] (\d+)
mThreeNumbers(s, m) == mDigits(s, mSep(s, mDigits(s, mSep(s, mDigits(s, m)))))

(***************************************************************************)
(* The connection: the parameters the server reported (pgconn              *)
(* .parameter_status), None when a parameter was not reported.             *)
(***************************************************************************)
DS_ISO_DMY == <<"I", "S", "O", ",", " ", "D", "M", "Y">>
DS_ISO_MDY == <<"I", "S", "O", ",", " ", "M", "D", "Y">>
DS_GERMAN == <<"G", "e", "r", "m", "a", "n", ",", " ", "D", "M", "Y">>
DS_SQL_DMY == <<"S", "Q", "L", ",", " ", "D", "M", "Y">>
DS_SQL_MDY == <<"S", "Q", "L", ",", " ", "M", "D", "Y">>
DS_PG_DMY == <<"P", "o", "s", "t", "g", "r", "e", "s", ",", " ", "D", "M", "Y">>
DS_PG_MDY == <<"P", "o", "s", "t", "g", "r", "e", "s", ",", " ", "M", "D", "Y">>
\* A value outside the enumeration of the server.
DS_UNKNOWN == <<"X", "y", "z">>

IS_POSTGRES == <<"p", "o", "s", "t", "g", "r", "e", "s">>
IS_SQL_STANDARD == <<"s", "q", "l", "_", "s", "t", "a", "n", "d", "a", "r", "d">>
IS_ISO_8601 == <<"i", "s", "o", "_", "8", "6", "0", "1">>
IS_PG_VERBOSE == <<"p", "o", "s", "t", "g", "r", "e", "s", "_", "v", "e", "r", "b", "o", "s", "e">>
\* A value outside the enumeration of the server.
IS_UNKNOWN == <<"b", "o", "g", "u", "s">>

\* The adapter has no connection (context is None).
NoConn == [some |-> FALSE, DateStyle |-> None, IntervalStyle |-> None, TimeZone |-> 0]

\* _get_datestyle(conn)
get_datestyle(c) ==
    IF c.some /\ c.DateStyle # None THEN c.DateStyle ELSE DS_ISO_DMY

(***************************************************************************)
(* date: dumpers and loaders.                                              *)
(***************************************************************************)
\* Mutant: the fields are not zero padded ("%d-%d-%d").
DateDumper_dump_unpadded(obj) ==
    Return(DecStr(obj.year) \o <<"-">> \o DecStr(obj.month) \o <<"-">>
           \o DecStr(obj.day))

\* DateDumper.dump
DateDumper_dump(obj) == Return(date_str(obj))

\* DateBinaryDumper.dump
DateBinaryDumper_dump(obj) ==
    LET days == toordinal(obj) - pg_date_epoch_days
    IN  Return(pack_int4(W(days)))

ORDER_YMD == 0
ORDER_DMY == 1
ORDER_MDY == 2

\* DateLoader.__init__: the instance, or InterfaceError.
DateLoader_init(c) ==
    LET ds == get_datestyle(c)
        inst(order) == Return([cls |-> "DateLoader", connection |-> c.some,
                               order |-> order])
    IN  IF startswith(ds, <<"I">>) THEN inst(ORDER_YMD)
        ELSE IF startswith(ds, <<"G">>) THEN inst(ORDER_DMY)
        ELSE IF startswith(ds, <<"S">>) \/ startswith(ds, <<"P">>)
        THEN inst(IF endswith(ds, <<"D", "M", "Y">>) THEN ORDER_DMY ELSE ORDER_MDY)
        ELSE Raise("InterfaceError", [unexpected |-> ds])

\* DateLoader.load
DateLoader_load(b, this, data) ==
    LET ye == IF this.order = ORDER_YMD THEN Slice(data, 0, 4) ELSE SliceFrom(data, 6)
        mo == IF this.order = ORDER_YMD THEN Slice(data, 5, 7)
              ELSE IF this.order = ORDER_DMY THEN Slice(data, 3, 5)
              ELSE Slice(data, 0, 2)
        da == IF this.order = ORDER_YMD THEN SliceFrom(data, 8)
              ELSE IF this.order = ORDER_DMY THEN Slice(data, 0, 2)
              ELSE Slice(data, 3, 5)
        iye == py_int(ye)
        imo == py_int(mo)
        ida == py_int(da)
        r == IF ~Returned(iye) THEN iye
             ELSE IF ~Returned(imo) THEN imo
             ELSE IF ~Returned(ida) THEN ida
             ELSE date_call(b, iye.val, imo.val, ida.val)
    IN  IF r.exc = "ValueError"
        THEN IF Len(data) # 10 THEN Raise("DataError", "date not supported")
             ELSE Raise("DataError", "can't parse date")
        ELSE r

\* Mutant: the day offset is taken for the ordinal (the epoch is not added).
DateBinaryLoader_load_noepoch(b, data) ==
    LET days == unpack_int4(data)
        r == date_fromordinal(b, days)
    IN  IF r.exc = "ValueError"
        THEN IF WLess(days, W(py_date_min_days))
             THEN Raise("DataError", "date too small (before year 1)")
             ELSE Raise("DataError", "date too large (after year 10K)")
        ELSE r

\* DateBinaryLoader.load
DateBinaryLoader_load(b, data) ==
    LET days == WAdd(unpack_int4(data), W(pg_date_epoch_days))
        r == date_fromordinal(b, days)
    IN  IF r.exc = "ValueError"
        THEN IF WLess(days, W(py_date_min_days))
             THEN Raise("DataError", "date too small (before year 1)")
             ELSE Raise("DataError", "date too large (after year 10K)")
        ELSE r


(***************************************************************************)
(* time: binary dumpers and loaders.                                       *)
(***************************************************************************)
\* us = obj.microsecond + 1_000_000 * (obj.second + 60 * (obj.minute + 60 * obj.hour))
time_micros(obj) ==
    WAdd(W(obj.microsecond),
         WMul(W(obj.second + 60 * (obj.minute + 60 * obj.hour)), 1000000))

\* TimeBinaryDumper.dump
TimeBinaryDumper_dump(obj) == Return(pack_int8(time_micros(obj)))

\* _pack_timetz / _unpack_timetz: struct "!qi"
pack_timetz(us, off) == PackBE(us, 8) \o PackBE(off, 4)
unpack_timetz(data) ==
    [val |-> UnpackBE(SubSeq(data, 1, 8)), off |-> UnpackBE(SubSeq(data, 9, 12))]

\* TimeTzBinaryDumper.dump
TimeTzBinaryDumper_dump(obj) ==
    LET us == time_micros(obj)
    IN  IF ~obj.tzinfo.aware THEN Raise("AssertionError", "off is not None")
        ELSE Return(pack_timetz(us, W(0 - int_total_seconds(utcoffset(obj)))))

\* TimeBinaryLoader.load
TimeBinaryLoader_load(b, data) ==
    LET val == unpack_int8(data)
        d1 == WDivMod(val, 1000000)
        d2 == WDivMod(d1.q, 60)
        d3 == WDivMod(d2.q, 60)
        r == time_call(b, d3.q, W(d3.r), W(d2.r), W(d1.r), NoTz)
    IN  IF r.exc = "ValueError"
        THEN Raise("DataError", "time not supported by Python")
        ELSE r

\* round(sec / 60.0) * 60: to the nearest minute, a half to the even one.
round_to_minute(sec) ==
    LET q == WDivMod(sec, 60)
        up == q.r > 30 \/ (q.r = 30 /\ q.q[1] % 2 = 1)
    IN  WMul(IF up THEN WAdd(q.q, W(1)) ELSE q.q, 60)

\* Mutant: the offset of the wire is not negated.
TimetzBinaryLoader_tz_from_sec_same(b, sec) ==
    LET td == timedelta_new(W(0), sec, W(0))
    IN  IF Returned(td) THEN timezone_new(b, td.val) ELSE td

\* TimetzBinaryLoader._tz_from_sec, which is _tz_from_sec_36 before
\* Python 3.7.
TimetzBinaryLoader_tz_from_sec(b, sec) ==
    LET sec1 == IF ~b.py37 /\ WDivMod(sec, 60).r # 0 THEN round_to_minute(sec)
                ELSE sec
        td == timedelta_new(W(0), WNeg(sec1), W(0))
    IN  IF Returned(td) THEN timezone_new(b, td.val) ELSE td

\* TimetzBinaryLoader.load
TimetzBinaryLoader_load_tz(b, tz, h, mi, sec, us) ==
    LET r == IF Returned(tz) THEN time_call(b, h, mi, sec, us, tz.val) ELSE tz
    IN  IF r.exc = "ValueError"
        THEN Raise("DataError", "time not supported by Python")
        ELSE r

TimetzBinaryLoader_load(b, data) ==
    LET u == unpack_timetz(data)
        d1 == WDivMod(u.val, 1000000)
        d2 == WDivMod(d1.q, 60)
        d3 == WDivMod(d2.q, 60)
    IN  TimetzBinaryLoader_load_tz(b, TimetzBinaryLoader_tz_from_sec(b, u.off),
                                   d3.q, W(d3.r), W(d2.r), W(d1.r))

(***************************************************************************)
(* datetime.datetime of the standard library.                              *)
(***************************************************************************)
\* A datetime object of the date d.
Datetime(d, h, mi, s, us, tz) ==
    [year |-> d.year, month |-> d.month, day |-> d.day, hour |-> h,
     minute |-> mi, second |-> s, microsecond |-> us, tzinfo |-> tz]

datetime_min == Datetime(date_min, 0, 0, 0, 0, NoTz)
datetime_max == Datetime(date_max, 23, 59, 59, 999999, NoTz)

\* dt.replace(tzinfo=tz)
replace_tzinfo(dt, tz) == [dt EXCEPT !.tzinfo = tz]

\* bool(tz) of a tzinfo object: it defines neither __bool__ nor __len__.
tzinfo_bool(tz) == tz.aware

\* The normalised timedelta of days, seconds and microseconds that are not
\* (here the days stay far below MAX_DELTA_DAYS).
timedelta_norm(d, s, us) ==
    LET s1 == s + us \div 1000000
    IN  Timedelta(d + s1 \div 86400, s1 % 86400, us % 1000000)

\* a + b, -a, a - b of timedeltas
timedelta_add(a, b) ==
    timedelta_norm(a.days + b.days, a.seconds + b.seconds,
                   a.microseconds + b.microseconds)
timedelta_neg(a) == timedelta_norm(0 - a.days, 0 - a.seconds, 0 - a.microseconds)
timedelta_sub(a, b) == timedelta_add(a, timedelta_neg(b))

\* The timedelta from the day before 0001-01-01 to the wall time of dt.
datetime_wall(dt) ==
    Timedelta(toordinal(dt), dt.hour * 3600 + dt.minute * 60 + dt.second,
              dt.microsecond)

\* datetime.__add__: dt + td, OverflowError out of datetime.min .. max.
datetime_add(dt, td) ==
    LET delta == timedelta_add(datetime_wall(dt), td)
    IN  IF 0 < delta.days /\ delta.days <= MAXORDINAL
        THEN Return(Datetime(ord2ymd(delta.days), delta.seconds \div 3600,
                             (delta.seconds % 3600) \div 60, delta.seconds % 60,
                             delta.microseconds, dt.tzinfo))
        ELSE Raise("OverflowError", "date value out of range")

\* datetime.__sub__ of two datetimes: TypeError when only one has a tzinfo.
datetime_sub(a, b) ==
    LET base == timedelta_sub(datetime_wall(a), datetime_wall(b))
    IN  IF a.tzinfo = b.tzinfo THEN Return(base)
        ELSE IF ~a.tzinfo.aware \/ ~b.tzinfo.aware
        THEN Raise("TypeError", "can't subtract offset-naive and offset-aware datetimes")
        ELSE Return(timedelta_sub(timedelta_add(base, utcoffset(b)), utcoffset(a)))

\* dt.astimezone(tz) of an aware dt: tz.fromutc((dt - offset).replace(tzinfo=tz)),
\* where fromutc adds the offset of tz.
astimezone(dt, tz) ==
    IF tz = dt.tzinfo THEN Return(dt)
    ELSE LET u == datetime_add(dt, timedelta_neg(utcoffset(dt)))
         IN  IF Returned(u)
             THEN datetime_add(replace_tzinfo(u.val, tz), tz.utcoffset)
             ELSE u

pg_datetime_epoch == Datetime(Date(2000, 1, 1), 0, 0, 0, 0, NoTz)
pg_datetimetz_epoch == Datetime(Date(2000, 1, 1), 0, 0, 0, 0, utc)

(***************************************************************************)
(* timestamptz: binary dumper and loader.                                  *)
(***************************************************************************)
\* delta.microseconds + 1_000_000 * (86_400 * delta.days + delta.seconds)
delta_micros(delta) ==
    WAdd(W(delta.microseconds),
         WMul(WAdd(WMul(W(delta.days), 86400), W(delta.seconds)), 1000000))

\* Mutant: the wall time is dumped, whatever the offset.
DatetimeBinaryDumper_dump_wall(obj) ==
    LET delta == datetime_sub(replace_tzinfo(obj, utc), pg_datetimetz_epoch)
    IN  IF Returned(delta) THEN Return(pack_int8(delta_micros(delta.val)))
        ELSE delta

\* DatetimeBinaryDumper.dump
DatetimeBinaryDumper_dump(obj) ==
    LET delta == datetime_sub(obj, pg_datetimetz_epoch)
    IN  IF Returned(delta) THEN Return(pack_int8(delta_micros(delta.val)))
        ELSE delta

\* get_tzinfo(pgconn): the timezone of the connection's TimeZone parameter
\* (here a number of seconds east of UTC), UTC without a connection.
get_tzinfo(c) ==
    IF ~c.some THEN utc
    ELSE FixedTz(Timedelta(c.TimeZone \div 86400, c.TimeZone % 86400, 0))

\* TimestamptzBinaryLoader.__init__
TimestamptzBinaryLoader_init(c) ==
    Return([cls |-> "TimestamptzBinaryLoader", connection |-> c.some,
            timezone |-> get_tzinfo(c)])

\* _pg_datetime_epoch + timedelta(microseconds=micros), with the tzinfo of epoch
epoch_plus_micros(epoch, micros) ==
    LET td == timedelta_new(W(0), W(0), micros)
    IN  IF Returned(td) THEN datetime_add(epoch, td.val) ELSE td

\* The two range errors of the timestamp loaders.
timestamp_range_error(micros) ==
    IF WLeq(micros, W(0))
    THEN Raise("DataError", "timestamp too small (before year 1)")
    ELSE Raise("DataError", "timestamp too large (after year 10K)")

\* Mutant: no rescue after the overflow.
TimestamptzBinaryLoader_load_norescue(this, data) ==
    LET micros == unpack_int8(data)
        ts == epoch_plus_micros(pg_datetimetz_epoch, micros)
        r == IF Returned(ts) THEN astimezone(ts.val, this.timezone) ELSE ts
    IN  IF r.exc # "OverflowError" THEN r ELSE timestamp_range_error(micros)

\* TimestamptzBinaryLoader.load
\* TimestamptzBinaryLoader.load, the handler of OverflowError: ts2 is the
\* epoch without timezone plus the microseconds shifted by the offset of the
\* connection's timezone, or what the sum raised.
TimestamptzBinaryLoader_load_rescue(this, micros, ts2) ==
    IF tzinfo_bool(this.timezone) /\ timedelta_bool(this.timezone.utcoffset)
       /\ ts2.exc # "OverflowError"
    THEN IF Returned(ts2) THEN Return(replace_tzinfo(ts2.val, this.timezone))
         ELSE ts2
    ELSE timestamp_range_error(micros)

\* TimestamptzBinaryLoader.load once the conversion was tried: r is the
\* datetime in the connection's timezone, or what the sum or the conversion
\* raised.
TimestamptzBinaryLoader_load_converted(this, micros, r) ==
    IF r.exc # "OverflowError" THEN r
    ELSE TimestamptzBinaryLoader_load_rescue(this, micros,
             epoch_plus_micros(pg_datetime_epoch,
                 WAdd(micros,
                      WMul(W(int_total_seconds(this.timezone.utcoffset)), 1000000))))

\* TimestamptzBinaryLoader.load once the epoch was shifted: ts is the
\* datetime in UTC, or what the sum raised.
TimestamptzBinaryLoader_load_ts(this, micros, ts) ==
    TimestamptzBinaryLoader_load_converted(this, micros,
        IF Returned(ts) THEN astimezone(ts.val, this.timezone) ELSE ts)

TimestamptzBinaryLoader_load(this, data) ==
    TimestamptzBinaryLoader_load_ts(this, unpack_int8(data),
        epoch_plus_micros(pg_datetimetz_epoch, unpack_int8(data)))

(***************************************************************************)
(* interval: binary loader.                                                *)
(***************************************************************************)
\* _unpack_interval: struct "!qii"
unpack_interval(data) ==
    [micros |-> UnpackBE(SubSeq(data, 1, 8)), days |-> UnpackBE(SubSeq(data, 9, 12)),
     months |-> UnpackBE(SubSeq(data, 13, 16))]
pack_interval(micros, days, months) ==
    PackBE(micros, 8) \o PackBE(days, 4) \o PackBE(months, 4)

\* Mutant: the months are folded with the sign of the days.
IntervalBinaryLoader_days_signofdays(days, months) ==
    LET a == IF WIsNeg(months) THEN WNeg(months) ELSE months
        ym == WDivMod(a, 12)
        fold == WAdd(W(30 * ym.r), WMul(ym.q, 365))
    IN  IF WIsNeg(days) THEN WSub(days, fold) ELSE WAdd(days, fold)

\* The days of IntervalBinaryLoader.load, the months folded into them.
IntervalBinaryLoader_days(days, months) ==
    IF WLess(W(0), months)
    THEN LET ym == WDivMod(months, 12)
         IN  WAdd(WAdd(days, W(30 * ym.r)), WMul(ym.q, 365))
    ELSE IF WLess(months, W(0))
    THEN LET ym == WDivMod(WNeg(months), 12)
         IN  WSub(WSub(days, W(30 * ym.r)), WMul(ym.q, 365))
    ELSE days

\* IntervalBinaryLoader.load
IntervalBinaryLoader_load(data) ==
    LET u == unpack_interval(data)
    IN  timedelta_new(IntervalBinaryLoader_days(u.days, u.months), W(0), u.micros)

(***************************************************************************)
(* timestamp and timestamptz: text loaders.                                *)
(***************************************************************************)
\* datetime(year, month, day, hour, minute, second, microsecond, tzinfo)
\* called with Python integers.  The C implementation converts each to a C
\* int first (OverflowError); out of range fields are a ValueError.
datetime_call(b, y, mo, d, h, mi, sec, us, tz) ==
    LET dr == date_call(b, y, mo, d)
        tr == time_call(b, h, mi, sec, us, tz)
    IN  IF dr.exc = "OverflowError" THEN dr
        ELSE IF tr.exc = "OverflowError" THEN tr
        ELSE IF ~Returned(dr) THEN dr
        ELSE IF ~Returned(tr) THEN tr
        ELSE Return(Datetime(dr.val, tr.val.hour, tr.val.minute, tr.val.second,
                             tr.val.microsecond, tz))

\* _month_abbr: the number of the month of an abbreviation, 0 for a KeyError.
month_abbr ==
    <<<<"J", "a", "n">>, <<"F", "e", "b">>, <<"M", "a", "r">>,
      <<"A", "p", "r">>, <<"M", "a", "y">>, <<"J", "u", "n">>,
      <<"J", "u", "l">>, <<"A", "u", "g">>, <<"S", "e", "p">>,
      <<"O", "c", "t">>, <<"N", "o", "v">>, <<"D", "e", "c">>>>
month_number(mo) ==
    IF \E i \in 1..12 : month_abbr[i] = mo THEN CHOOSE i \in 1..12 : month_abbr[i] = mo
    ELSE 0

\* _uspad, from its second element
uspad == <<100000, 10000, 1000, 100, 10, 1>>

\* The microseconds of the fraction fr of a second (None without).
fraction_micros(fr) ==
    IF fr = None THEN W(0)
    ELSE IF Len(fr) < 6 THEN WMul(py_int(fr).val, uspad[Len(fr)])
    ELSE py_int(fr).val

ORDER_PGDM == 3
ORDER_PGMD == 4

\* TimestampLoader.__init__: the instance, or InterfaceError.
TimestampLoader_init(c) ==
    LET ds == get_datestyle(c)
        inst(order, re) == Return([cls |-> "TimestampLoader", connection |-> c.some,
                                   order |-> order, re_format |-> re])
    IN  IF startswith(ds, <<"I">>) THEN inst(ORDER_YMD, "_re_format")
        ELSE IF startswith(ds, <<"G">>) THEN inst(ORDER_DMY, "_re_format")
        ELSE IF startswith(ds, <<"S">>)
        THEN inst(IF endswith(ds, <<"D", "M", "Y">>) THEN ORDER_DMY ELSE ORDER_MDY,
                  "_re_format")
        ELSE IF startswith(ds, <<"P">>)
        THEN inst(IF endswith(ds, <<"D", "M", "Y">>) THEN ORDER_PGDM ELSE ORDER_PGMD,
                  "_re_format_pg")
        ELSE Raise("InterfaceError", [unexpected |-> ds])

\* TimestampLoader._re_format.match(data)
TimestampLoader_re_format(data) ==
    mEnd(data, mOptCharDigits(data,
        mThreeNumbers(data, mSepT(data, mThreeNumbers(data, MatchStart))), "."))

\* TimestampLoader._re_format_pg.match(data): the fraction is taken when the
\* rest matches after it, and skipped otherwise.
TimestampLoader_re_format_pg(data) ==
    LET time == mThreeNumbers(data, mSep(data, mWord(data, mSep(data,
                    mWord(data, mSep(data, mAlpha(data, MatchStart)))))))
        year(m) == mEnd(data, mDigits(data, mSep(data, m)))
    IN  IF ~time.ok THEN NoMatch
        ELSE IF year(mCharDigits(data, time, ".")).ok
        THEN year(mCharDigits(data, time, "."))
        ELSE year(Capture(time, time.pos, None))

\* The DataError of a text that does not match.
timestamp_no_match(data) ==
    IF endswith(data, <<"B", "C">>) THEN Raise("DataError", "BC timestamps not supported")
    ELSE Raise("DataError", "can't parse timestamp")

\* TimestampLoader.load once the expression was tried: m is the match.
TimestampLoader_load_match(b, this, data, m) ==
    LET g == m.groups
        pg == this.order \in {ORDER_PGDM, ORDER_PGMD}
        ye == IF pg THEN g[7] ELSE IF this.order = ORDER_YMD THEN g[1] ELSE g[3]
        mo == IF this.order \in {ORDER_YMD, ORDER_DMY, ORDER_PGDM} THEN g[2] ELSE g[1]
        da == IF this.order = ORDER_YMD THEN g[3]
              ELSE IF this.order \in {ORDER_DMY, ORDER_PGDM} THEN g[1]
              ELSE g[2]
        ho == IF pg THEN g[3] ELSE g[4]
        mi == IF pg THEN g[4] ELSE g[5]
        se == IF pg THEN g[5] ELSE g[6]
        fr == IF pg THEN g[6] ELSE g[7]
        imo == IF pg THEN W(month_number(mo)) ELSE py_int(mo).val
        ida == py_int(da)
        r == IF ~Returned(ida) THEN ida
             ELSE datetime_call(b, py_int(ye).val, imo, ida.val, py_int(ho).val,
                                py_int(mi).val, py_int(se).val, fraction_micros(fr),
                                NoTz)
    IN  IF ~m.ok THEN timestamp_no_match(data)
        ELSE IF pg /\ month_number(mo) = 0 THEN Raise("DataError", "can't parse month")
        ELSE IF r.exc = "ValueError" THEN Raise("DataError", "can't parse timestamp")
        ELSE r

\* TimestampLoader.load
TimestampLoader_load(b, this, data) ==
    TimestampLoader_load_match(b, this, data,
        IF this.re_format = "_re_format_pg" THEN TimestampLoader_re_format_pg(data)
        ELSE TimestampLoader_re_format(data))

\* TimestamptzLoader.__init__
TimestamptzLoader_init(c) ==
    Return([cls |-> "TimestamptzLoader", connection |-> c.some,
            timezone |-> get_tzinfo(c),
            load |-> IF ~startswith(get_datestyle(c), <<"I">>) THEN "_load_notimpl"
                     ELSE "load"])

\* TimestamptzLoader._re_format.match(data)
TimestamptzLoader_re_format(data) ==
    mEnd(data, mOptCharDigits(data, mOptCharDigits(data,
        mDigits(data, mOneOf(data,
            mOptCharDigits(data,
                mThreeNumbers(data, mSepT(data, mThreeNumbers(data, MatchStart))),
                "."),
            {"-", "+"})),
        ":"), ":"))

\* TimestamptzLoader.load once the conversion was tried: r is the datetime
\* in the connection's timezone, or what the subtraction or the conversion
\* raised; dt is the datetime in UTC and tzoff the offset of the text.
TimestamptzLoader_load_converted(b, tzoff, dt, r) ==
    LET fixed == timezone_new(b, tzoff)
    IN  IF r.exc = "OverflowError"
        THEN IF Returned(fixed) THEN Return(replace_tzinfo(dt, fixed.val))
             ELSE fixed
        ELSE IF r.exc = "ValueError" THEN Raise("DataError", "can't parse timestamptz")
        ELSE r

\* TimestamptzLoader.load once the offset was subtracted: shifted is
\* dt - tzoff, or what the subtraction raised.
TimestamptzLoader_load_shifted(b, this, tzoff, dt, shifted) ==
    TimestamptzLoader_load_converted(b, tzoff, dt,
        IF Returned(shifted) THEN astimezone(shifted.val, this.timezone)
        ELSE shifted)

\* TimestamptzLoader.load once the offset and the datetime were made: tzoff
\* and dt are what timedelta() and datetime() returned or raised.
TimestamptzLoader_load_parsed(b, this, tzoff, dt) ==
    IF ~Returned(tzoff) THEN tzoff
    ELSE IF ~Returned(dt) THEN Raise("DataError", "can't parse timestamptz")
    ELSE TimestamptzLoader_load_shifted(b, this, tzoff.val, dt.val,
             datetime_add(dt.val, timedelta_neg(tzoff.val)))

\* TimestamptzLoader.load once the expression was tried: m is the match.
TimestamptzLoader_load_match(b, this, data, m) ==
    LET g == m.groups
        soff == WAdd(WAdd(WMul(py_int(g[9]).val, 3600),
                          IF g[10] # None THEN WMul(py_int(g[10]).val, 60) ELSE W(0)),
                     IF g[11] # None THEN py_int(g[11]).val ELSE W(0))
    IN  IF ~m.ok THEN timestamp_no_match(data)
        ELSE TimestamptzLoader_load_parsed(b, this,
                 timedelta_new(W(0), IF g[8] = <<"+">> THEN soff ELSE WNeg(soff), W(0)),
                 datetime_call(b, py_int(g[1]).val, py_int(g[2]).val, py_int(g[3]).val,
                               py_int(g[4]).val, py_int(g[5]).val, py_int(g[6]).val,
                               fraction_micros(g[7]), utc))

\* TimestamptzLoader.load
TimestamptzLoader_load(b, this, data) ==
    TimestamptzLoader_load_match(b, this, data, TimestamptzLoader_re_format(data))

\* TimestamptzLoader._load_notimpl, c the connection of the loader as it is
\* at the call.
TimestamptzLoader_load_notimpl(c, data) ==
    Raise("NotImplementedError", [DateStyle |-> get_datestyle(c), data |-> data])

(***************************************************************************)
(* time and timetz: text loaders; timestamp: binary loader.                *)
(***************************************************************************)
\* TimeLoader._re_format.match(data): ^(\d+):(\d+):(\d+)(?:\.(\d+))? with
\* no end, so that what follows the time is not looked at.
TimeLoader_re_format(data) ==
    mOptCharDigits(data,
        mCharDigits(data, mCharDigits(data, mDigits(data, MatchStart), ":"), ":"),
        ".")

\* TimeLoader.load once the expression was tried: m is the match.
TimeLoader_load_match(b, m) ==
    LET g == m.groups
        r == time_call(b, py_int(g[1]).val, py_int(g[2]).val, py_int(g[3]).val,
                       fraction_micros(g[4]), NoTz)
    IN  IF ~m.ok THEN Raise("DataError", "can't parse time")
        ELSE IF r.exc = "ValueError" THEN Raise("DataError", "can't parse time")
        ELSE r

\* TimeLoader.load
TimeLoader_load(b, data) == TimeLoader_load_match(b, TimeLoader_re_format(data))

\* TimetzLoader._re_format.match(data)
TimetzLoader_re_format(data) ==
    mEnd(data, mOptCharDigits(data, mOptCharDigits(data,
        mDigits(data, mOneOf(data, TimeLoader_re_format(data), {"-", "+"})),
        ":"), ":"))

\* The seconds of the offset sgn oh[:om[:os]] of a text, os counted or not.
offset_seconds(sgn, oh, om, os, withSeconds) ==
    LET off == WAdd(WAdd(WMul(py_int(oh).val, 3600),
                         IF om # None THEN WMul(py_int(om).val, 60) ELSE W(0)),
                    IF os # None /\ withSeconds THEN py_int(os).val ELSE W(0))
    IN  IF sgn = <<"+">> THEN off ELSE WNeg(off)

\* TimetzLoader.load once the timezone was made: tz is timezone(timedelta(0,
\* off)) or what it raised, outside the try.
TimetzLoader_load_tz(b, g, tz) ==
    LET r == time_call(b, py_int(g[1]).val, py_int(g[2]).val, py_int(g[3]).val,
                       fraction_micros(g[4]), tz.val)
    IN  IF ~Returned(tz) THEN tz
        ELSE IF r.exc = "ValueError" THEN Raise("DataError", "can't parse timetz")
        ELSE r

\* timezone(timedelta(0, off)): what either call raised, or the timezone.
timezone_of_seconds(b, off) ==
    LET td == timedelta_new(W(0), off, W(0))
    IN  IF Returned(td) THEN timezone_new(b, td.val) ELSE td

\* TimetzLoader.load once the expression was tried: m is the match.
TimetzLoader_load_match(b, m) ==
    IF ~m.ok THEN Raise("DataError", "can't parse timetz")
    ELSE TimetzLoader_load_tz(b, m.groups,
             timezone_of_seconds(b, offset_seconds(m.groups[5], m.groups[6],
                                                   m.groups[7], m.groups[8], b.py37)))

\* TimetzLoader.load
TimetzLoader_load(b, data) == TimetzLoader_load_match(b, TimetzLoader_re_format(data))

\* TimestampBinaryLoader.load
TimestampBinaryLoader_load(data) ==
    LET micros == unpack_int8(data)
        r == epoch_plus_micros(pg_datetime_epoch, micros)
    IN  IF r.exc = "OverflowError" THEN timestamp_range_error(micros) ELSE r

(***************************************************************************)
(* interval: text dumper and loader.                                       *)
(***************************************************************************)
\* Texts of the formats.
LIT_DAY == <<" ", "d", "a", "y">>
LIT_SECOND == <<" ", "s", "e", "c", "o", "n", "d">>
LIT_MICROSECOND == <<" ", "m", "i", "c", "r", "o", "s", "e", "c", "o", "n", "d">>
LIT_YEAR == <<"y", "e", "a", "r">>
LIT_MON == <<"m", "o", "n">>
LIT_UNKNOWN == <<"u", "n", "k", "n", "o", "w", "n">>

\* "%d" % n
IntStr(n) == IF n < 0 THEN <<"-">> \o DecStr(0 - n) ELSE DecStr(n)

\* str(td) of a timedelta
timedelta_str(td) ==
    LET hh == td.seconds \div 3600
        mm == (td.seconds \div 60) % 60
        ss == td.seconds % 60
        clock == DecStr(hh) \o <<":">> \o ZeroPad(DecStr(mm), 2) \o <<":">>
                 \o ZeroPad(DecStr(ss), 2)
        days == IF td.days = 0 THEN <<>>
                ELSE IntStr(td.days) \o LIT_DAY
                     \o (IF Abs(td.days) # 1 THEN <<"s">> ELSE <<>>) \o <<",", " ">>
        micros == IF td.microseconds = 0 THEN <<>>
                  ELSE <<".">> \o ZeroPad(DecStr(td.microseconds), 6)
    IN  days \o clock \o micros

\* Mutant: the style of the connection is not looked at.
TimedeltaDumper_init_nostyle(c) ==
    Return([cls |-> "TimedeltaDumper", connection |-> c.some, dump |-> "dump"])

\* TimedeltaDumper.__init__
TimedeltaDumper_init(c) ==
    Return([cls |-> "TimedeltaDumper", connection |-> c.some,
            dump |-> IF c.some /\ c.IntervalStyle = IS_SQL_STANDARD THEN "_dump_sql"
                     ELSE "dump"])

\* TimedeltaDumper.dump
TimedeltaDumper_dump(obj) == Return(timedelta_str(obj))

\* TimedeltaDumper._dump_sql: b"%+d day %+d second %+d microsecond"
TimedeltaDumper_dump_sql(obj) ==
    Return(SignedStr(obj.days) \o LIT_DAY \o <<" ">> \o SignedStr(obj.seconds)
           \o LIT_SECOND \o <<" ">> \o SignedStr(obj.microseconds) \o LIT_MICROSECOND)

\* IntervalLoader.__init__
IntervalLoader_init(c) ==
    Return([cls |-> "IntervalLoader", connection |-> c.some,
            load |-> IF c.some /\ c.IntervalStyle # IS_POSTGRES THEN "_load_notimpl"
                     ELSE "load"])

\* The text lit at the position of the match.
mLiteral(s, m, lit) ==
    IF m.ok /\ SubSeq(s, m.pos, Min(Len(s), m.pos + Len(lit) - 1)) = lit
    THEN Advance(m, m.pos + Len(lit))
    ELSE NoMatch

\* ([-+]?\d+)
mSignedDigits(s, m) ==
    LET p == IF m.ok /\ m.pos <= Len(s) /\ s[m.pos] \in {"-", "+"} THEN m.pos + 1
             ELSE m.pos
    IN  IF m.ok /\ DigitsEnd(s, p) > p
        THEN Capture(m, DigitsEnd(s, p), SubSeq(s, m.pos, DigitsEnd(s, p) - 1))
        ELSE NoMatch

\* \s+ and \s*
mSpaces(s, m) ==
    IF m.ok /\ SpaceEnd(s, m.pos) > m.pos THEN Advance(m, SpaceEnd(s, m.pos))
    ELSE NoMatch
mOptSpaces(s, m) ==
    IF m.ok THEN Advance(m, SpaceEnd(s, m.pos)) ELSE NoMatch

\* An optional s
mOptS(s, m) ==
    IF m.ok /\ m.pos <= Len(s) /\ s[m.pos] = "s" THEN Advance(m, m.pos + 1) ELSE m

\* (?: ([-+]?\d+) \s+ units? \s* )?
mOptUnit(s, m, unit) ==
    LET taken == mOptSpaces(s, mOptS(s, mLiteral(s,
                     mSpaces(s, mSignedDigits(s, m)), unit)))
    IN  IF taken.ok THEN taken ELSE Capture(m, m.pos, None)

\* (?: ([-+])? (\d+) : (\d+) : (\d+ (?:\.\d+)?) )?
mOptClock(s, m) ==
    LET sgn == IF mOneOf(s, m, {"-", "+"}).ok THEN mOneOf(s, m, {"-", "+"})
               ELSE Capture(m, m.pos, None)
        mi == mCharDigits(s, mDigits(s, sgn), ":")
        se == IF mi.ok /\ mi.pos <= Len(s) /\ s[mi.pos] = ":"
              THEN mDigits(s, Advance(mi, mi.pos + 1))
              ELSE NoMatch
        fr == mCharDigits(s, se, ".")
        end == IF fr.ok THEN fr.pos ELSE se.pos
    IN  IF se.ok
        THEN [se EXCEPT !.pos = end,
                        !.groups[Len(se.groups)] = SubSeq(s, mi.pos + 1, end - 1)]
        ELSE [m EXCEPT !.groups = @ \o <<None, None, None, None>>]

\* IntervalLoader._re_interval.match(data): it matches every text, at worst
\* none of it.
IntervalLoader_re_interval(data) ==
    mOptClock(data, mOptUnit(data, mOptUnit(data, mOptUnit(data, MatchStart,
        LIT_YEAR), LIT_MON), <<"d", "a", "y">>))

\* float(se) of seconds written with at most 6 decimals, in microseconds.
seconds_micros(se) ==
    LET dot == DigitsEnd(se, 1)
        frac == SubSeq(se, dot + 1, Min(Len(se), dot + 6))
    IN  WAdd(WMul(py_int(SubSeq(se, 1, dot - 1)).val, 1000000),
             IF frac = <<>> THEN W(0) ELSE fraction_micros(frac))

\* IntervalLoader.load once the expression was tried: g are the groups of
\* the match.
IntervalLoader_load_groups(g) ==
    LET int_or_0(x, k) == IF x # None THEN WMul(py_int(x).val, k) ELSE W(0)
        days == WAdd(WAdd(int_or_0(g[1], 365), int_or_0(g[2], 30)), int_or_0(g[3], 1))
        micros == WAdd(WMul(WAdd(int_or_0(g[5], 3600), int_or_0(g[6], 60)), 1000000),
                       seconds_micros(g[7]))
        seconds == IF g[5] = None THEN W(0)
                   ELSE IF g[4] = <<"-">> THEN WNeg(micros)
                   ELSE micros
        r == timedelta_new(days, W(0), seconds)
    IN  IF r.exc = "OverflowError" THEN Raise("DataError", "can't parse interval")
        ELSE r

\* IntervalLoader.load
IntervalLoader_load(data) ==
    IntervalLoader_load_groups(IntervalLoader_re_interval(data).groups)

\* IntervalLoader._load_notimpl, c the connection of the loader as it is at
\* the call.
IntervalLoader_load_notimpl(c, data) ==
    Raise("NotImplementedError",
          [IntervalStyle |-> IF c.some /\ c.IntervalStyle # None THEN c.IntervalStyle
                             ELSE LIT_UNKNOWN,
           data |-> data])

(***************************************************************************)
(* The load and the dump of an instance: the method __init__ bound to it   *)
(* (setattr), called with the connection c of the instance as it is at     *)
(* the call.                                                               *)
(***************************************************************************)
TimestamptzLoader_call(b, this, c, data) ==
    IF this.load = "_load_notimpl" THEN TimestamptzLoader_load_notimpl(c, data)
    ELSE TimestamptzLoader_load(b, this, data)

IntervalLoader_call(this, c, data) ==
    IF this.load = "_load_notimpl" THEN IntervalLoader_load_notimpl(c, data)
    ELSE IntervalLoader_load(data)

TimedeltaDumper_call(this, obj) ==
    IF this.dump = "_dump_sql" THEN TimedeltaDumper_dump_sql(obj)
    ELSE TimedeltaDumper_dump(obj)

(***************************************************************************)
(* time and datetime: the dumper a value needs.                            *)
(***************************************************************************)
\* Dumper.__init__(cls): an instance of the dumper class name for the Python
\* class cls.
Dumper_init(name, cls) == Return([cls |-> name, pycls |-> cls])

\* _BaseTimeDumper.get_key: self.cls, or the tuple (self.cls,).
BaseTimeDumper_get_key(this, obj) ==
    IF ~tzinfo_bool(obj.tzinfo) THEN Return(this.pycls)
    ELSE Return(<<this.pycls>>)

\* _BaseTimeDumper.upgrade
BaseTimeDumper_upgrade(this, obj) == Raise("NotImplementedError", None)

\* Mutant: the dumper of time without offset is kept for every value.
TimeDumper_upgrade_self(this, obj) == Return(this)

\* TimeDumper.upgrade
TimeDumper_upgrade(this, obj) ==
    IF ~tzinfo_bool(obj.tzinfo) THEN Return(this)
    ELSE Dumper_init("TimeTzDumper", this.pycls)

\* TimeBinaryDumper.upgrade
TimeBinaryDumper_upgrade(this, obj) ==
    IF ~tzinfo_bool(obj.tzinfo) THEN Return(this)
    ELSE Dumper_init("TimeTzBinaryDumper", this.pycls)

\* _BaseDatetimeDumper.get_key
BaseDatetimeDumper_get_key(this, obj) ==
    IF tzinfo_bool(obj.tzinfo) THEN Return(this.pycls)
    ELSE Return(<<this.pycls>>)

\* _BaseDatetimeDumper.upgrade
BaseDatetimeDumper_upgrade(this, obj) == Raise("NotImplementedError", None)

\* DatetimeDumper.upgrade
DatetimeDumper_upgrade(this, obj) ==
    IF tzinfo_bool(obj.tzinfo) THEN Return(this)
    ELSE Dumper_init("DatetimeNoTzDumper", this.pycls)

\* DatetimeBinaryDumper.upgrade
DatetimeBinaryDumper_upgrade(this, obj) ==
    IF tzinfo_bool(obj.tzinfo) THEN Return(this)
    ELSE Dumper_init("DatetimeNoTzBinaryDumper", this.pycls)

\* The dumper classes of time and of datetime, and the Python class each set
\* is registered for.
TimeDumpers == {"TimeDumper", "TimeTzDumper", "TimeBinaryDumper", "TimeTzBinaryDumper"}
DatetimeDumpers ==
    {"DatetimeDumper", "DatetimeNoTzDumper", "DatetimeBinaryDumper",
     "DatetimeNoTzBinaryDumper"}

\* this.get_key(obj) and this.upgrade(obj), by the class of this.
Dumper_get_key(this, obj) ==
    IF this.cls \in TimeDumpers THEN BaseTimeDumper_get_key(this, obj)
    ELSE BaseDatetimeDumper_get_key(this, obj)

Dumper_upgrade(this, obj) ==
    IF this.cls = "TimeDumper" THEN TimeDumper_upgrade(this, obj)
    ELSE IF this.cls = "TimeBinaryDumper" THEN TimeBinaryDumper_upgrade(this, obj)
    ELSE IF this.cls = "DatetimeDumper" THEN DatetimeDumper_upgrade(this, obj)
    ELSE IF this.cls = "DatetimeBinaryDumper" THEN DatetimeBinaryDumper_upgrade(this, obj)
    ELSE IF this.cls \in TimeDumpers THEN BaseTimeDumper_upgrade(this, obj)
    ELSE BaseDatetimeDumper_upgrade(this, obj)

(***************************************************************************)
(* The state.                                                              *)
(***************************************************************************)
VARIABLES
    build,  \* the host: [cdatetime: the C datetime module, py37: Python >= 3.7]
    conn,   \* the connection's parameters, as the server last reported them
    self,   \* the adapter instance last constructed
    ctor,   \* history: the connection as it was when self was constructed
    wire,   \* the buffer last dumped and not yet loaded, with its value
    out     \* the last call: [op, arg, ret, sent]

vars == <<build, conn, self, ctor, wire, out>>

NoObj == [cls |-> "None"]
NoWire == [from |-> "None"]
NoCall == [op |-> "None"]

\* The connection an adapter constructed with (c = TRUE) or without a
\* connection sees now.
Connection(c) == IF c THEN conn ELSE NoConn

Call(op, arg, ret) == [op |-> op, arg |-> arg, ret |-> ret, sent |-> NoWire]

\* Constructing an adapter: self is the new instance, or nothing when the
\* constructor raised.  A buffer already dumped stays in flight.
Construct(op, c, r) ==
    /\ self' = IF Returned(r) THEN r.val ELSE NoObj
    /\ ctor' = Connection(c)
    /\ out' = Call(op, c, IF Returned(r) THEN Return(r.val.cls) ELSE r)

\* A dumper's dump: the bytes are put on the wire.
Dump(op, obj, r) ==
    /\ wire = NoWire
    /\ wire' = IF Returned(r) THEN [from |-> op, obj |-> obj, data |-> r.val]
               ELSE NoWire
    /\ out' = Call(op, obj, r)

\* A loader's load of the buffer in flight (fromWire) or of other input.
Load(op, fromWire, data, r) ==
    /\ IF fromWire THEN wire # NoWire /\ data = wire.data ELSE wire = NoWire
    /\ out' = [op |-> op, arg |-> data, ret |-> r, sent |-> wire]
    /\ wire' = NoWire

\* The stateless adapters.
Stateless(cls) == Return([cls |-> cls])

(***************************************************************************)
(* Inputs.                                                                 *)
(***************************************************************************)
EdgeOffsets == (0 - NEdge)..NEdge

SampleYears ==
    (MINYEAR..(MINYEAR + NYears - 1)) \cup ((2000 - NYears)..(2000 + NYears))
    \cup ((MAXYEAR - NYears + 1)..MAXYEAR)
SampleMonths == {1, 2, 9, 10, 12}
SampleDays == {1, 9, 10, 28, 29, 30, 31}
DatesOf(years, months, days) ==
    {Date(t[1], t[2], t[3]) :
        t \in {u \in years \X months \X days : ValidDate(u[1], u[2], u[3])}}
\* Dates dumped in text format, and in binary format (with the leap years
\* next to the sampled ones).
SampleDates == DatesOf(SampleYears, SampleMonths, SampleDays)
BinarySampleDates ==
    DatesOf(SampleYears \cup {4, 1900, 2004, 9996}, 1..12, SampleDays)

INT4_MAX == 2147483647
Int4Min == WSub(W(0 - INT4_MAX), W(1))
\* The least int8: -2^63.
Int8Min == [i \in 1..IntLimbs |-> IF i < 8 THEN 0 ELSE IF i = 8 THEN 128 ELSE 255]

\* int4 day offsets: around the least and the greatest int4, the epoch, the
\* first and the last date, and the greatest ordinal that fits a C int.
Int4Centers ==
    {Int4Min, W(INT4_MAX), W(0), W(py_date_min_days - pg_date_epoch_days),
     W(MAXORDINAL - pg_date_epoch_days), W(INT4_MAX - pg_date_epoch_days)}
DateBinaryInputs ==
    {pack_int4(w) : w \in {v \in {WAdd(c, W(k)) : c \in Int4Centers, k \in EdgeOffsets} :
                              WFitsBytes(v, 4)}}

DateTextInputs == {
    <<"0", "1", "/", "0", "2", "/", "2", "0", "2">>,
    <<>>,
    <<"2", "0", "0", "0", "-", "0", "2", "-", "2", "9">>,
    <<"2", "0", "0", "1", "-", "0", "2", "-", "2", "9">>,
    <<"1", "9", "9", "9", "-", "1", "2", "-", "3", "1">>,
    <<"3", "1", ".", "1", "2", ".", "1", "9", "9", "9">>,
    <<"1", "2", "/", "3", "1", "/", "1", "9", "9", "9">>,
    <<"3", "1", "/", "1", "2", "/", "1", "9", "9", "9">>,
    <<"1", "2", "-", "3", "1", "-", "1", "9", "9", "9">>,
    <<"3", "1", "-", "1", "2", "-", "1", "9", "9", "9">>,
    <<"0", "0", "0", "1", "-", "0", "1", "-", "0", "1">>,
    <<"9", "9", "9", "9", "-", "1", "2", "-", "3", "1">>,
    <<"1", "0", "0", "0", "0", "-", "0", "1", "-", "0", "1">>,
    <<"0", "1", ".", "0", "1", ".", "1", "0", "0", "0", "0">>,
    <<"2", "0", "0", "0", "-", "1", "-", "1">>,
    <<"2", "0", "0", "0", "-", "0", "1", "-", "1">>,
    <<"1", ".", "1", ".", "2", "0", "0", "0">>,
    <<"0", "0", "4", "4", "-", "0", "3", "-", "1", "5", " ", "B", "C">>,
    <<"i", "n", "f", "i", "n", "i", "t", "y">>,
    <<"2", "0", "0", "0", "-", "0", "1", "-", "0", "1", " ">>,
    <<" ", "1", "-", "0", "1", "-", "2", "0", "0", "0">>,
    <<"+", "2", "0", "0", "-", "0", "1", "-", "0", "1">>,
    <<"2", "_", "0", "0", "-", "0", "1", "-", "0", "1">>,
    <<"2", "0", "0", "0", "-", "0", "0", "-", "0", "1">>,
    <<"2", "0", "0", "0", "-", "0", "1", "-", "9", "9", "9", "9", "9", "9", "9", "9", "9", "9", "9">>}

DateStyles ==
    {None, DS_ISO_DMY, DS_ISO_MDY, DS_GERMAN, DS_SQL_DMY, DS_SQL_MDY, DS_PG_DMY,
     DS_PG_MDY, DS_UNKNOWN}

(***************************************************************************)
(* Actions: date.                                                          *)
(***************************************************************************)
NewDateDumper ==
    /\ Construct("DateDumper.__init__", TRUE, Stateless("DateDumper"))
    /\ UNCHANGED <<build, conn, wire>>

NewDateBinaryDumper ==
    /\ Construct("DateBinaryDumper.__init__", TRUE, Stateless("DateBinaryDumper"))
    /\ UNCHANGED <<build, conn, wire>>

NewDateLoader ==
    /\ \E c \in BOOLEAN :
           Construct("DateLoader.__init__", c, DateLoader_init(Connection(c)))
    /\ UNCHANGED <<build, conn, wire>>

NewDateBinaryLoader ==
    /\ Construct("DateBinaryLoader.__init__", TRUE, Stateless("DateBinaryLoader"))
    /\ UNCHANGED <<build, conn, wire>>

DateDumperDump ==
    /\ self.cls = "DateDumper"
    /\ \E obj \in SampleDates : Dump("DateDumper.dump", obj, DateDumper_dump(obj))
    /\ UNCHANGED <<build, conn, self, ctor>>

DateBinaryDumperDump ==
    /\ self.cls = "DateBinaryDumper"
    /\ \E obj \in BinarySampleDates :
           Dump("DateBinaryDumper.dump", obj, DateBinaryDumper_dump(obj))
    /\ UNCHANGED <<build, conn, self, ctor>>

\* DateLoader.load of the text a DateDumper dumped.
DateLoaderLoadDumped ==
    /\ self.cls = "DateLoader"
    /\ wire # NoWire /\ wire.from = "DateDumper.dump"
    /\ Load("DateLoader.load", TRUE, wire.data, DateLoader_load(build, self, wire.data))
    /\ UNCHANGED <<build, conn, self, ctor>>

\* DateLoader.load of text of the server.
DateLoaderLoad ==
    /\ self.cls = "DateLoader"
    /\ \E data \in DateTextInputs :
           Load("DateLoader.load", FALSE, data, DateLoader_load(build, self, data))
    /\ UNCHANGED <<build, conn, self, ctor>>

\* DateBinaryLoader.load of the bytes a DateBinaryDumper dumped.
DateBinaryLoaderLoadDumped ==
    /\ self.cls = "DateBinaryLoader"
    /\ wire # NoWire /\ wire.from = "DateBinaryDumper.dump"
    /\ Load("DateBinaryLoader.load", TRUE, wire.data,
            DateBinaryLoader_load(build, wire.data))
    /\ UNCHANGED <<build, conn, self, ctor>>

\* DateBinaryLoader.load of bytes of the server.
DateBinaryLoaderLoad ==
    /\ self.cls = "DateBinaryLoader"
    /\ \E data \in DateBinaryInputs :
           Load("DateBinaryLoader.load", FALSE, data, DateBinaryLoader_load(build, data))
    /\ UNCHANGED <<build, conn, self, ctor>>

(***************************************************************************)
(* Actions: time in binary format.                                         *)
(***************************************************************************)
\* The first and the last NEdge numbers of lo..hi.
EdgeOf(lo, hi) == (lo..(lo + NEdge - 1)) \cup ((hi - NEdge + 1)..hi)

\* UTC offsets of the sampled values, in seconds and microseconds; the
\* tzinfo of each when the host can represent it.
SampleOffsets ==
    {Timedelta(0, 0, 0), Timedelta(0, 1, 0), Timedelta(-1, 86399, 0),
     Timedelta(0, 3600, 0), Timedelta(-1, 68400, 0), Timedelta(0, 19800, 0),
     Timedelta(0, 86340, 0), Timedelta(-1, 60, 0), Timedelta(0, 86399, 0),
     Timedelta(-1, 1, 0), Timedelta(0, 30, 0), Timedelta(-1, 86310, 0),
     Timedelta(0, 0, 500000), Timedelta(-1, 86399, 500000)}
SampleTzinfos(b) ==
    {r.val : r \in {t \in {timezone_new(b, td) : td \in SampleOffsets} : Returned(t)}}

\* Hours at the edges of the day, with the first or the last minute, second
\* and microsecond of the hour, and one time in the afternoon.
SampleClock ==
    (EdgeOf(0, 23) \X {0} \X {0} \X {0, 999999})
    \cup (EdgeOf(0, 23) \X {59} \X {59} \X {0, 999999})
    \cup {<<13, 7, 42, 123456>>}
SampleNaiveTimes == {Time(t[1], t[2], t[3], t[4], NoTz) : t \in SampleClock}
SampleAwareTimes(b) ==
    {Time(t[1], t[2], t[3], t[4], tz) : t \in SampleClock, tz \in SampleTzinfos(b)}

\* int8 microseconds of a time: around 0, 24 hours, the greatest value whose
\* hour fits a C int, and the least and the greatest int8.
TimeBinaryCenters ==
    {W(0), WMul(W(86400), 1000000), WMul(WMul(W(INT4_MAX), 3600), 1000000),
     Int8Min, WNot(Int8Min)}
TimeBinaryInputs ==
    {pack_int8(w) : w \in {v \in {WAdd(c, W(k)) : c \in TimeBinaryCenters,
                                                  k \in EdgeOffsets} :
                              WFitsBytes(v, 8)}}
\* timetz: the same with an offset of -24 hours .. 24 hours, and the extreme
\* int4 offsets.
TimetzBinaryOffsets ==
    {W(0), W(-3600), W(30), W(86399), W(-86399), W(86400), W(-86400),
     W(INT4_MAX), Int4Min}
TimetzBinaryInputs ==
    {t \o pack_int4(W(3600)) : t \in TimeBinaryInputs}
    \cup {pack_int8(W(k)) \o pack_int4(o) : k \in {0, 1}, o \in TimetzBinaryOffsets}

NewTimeBinaryDumper ==
    /\ Construct("TimeBinaryDumper.__init__", TRUE, Stateless("TimeBinaryDumper"))
    /\ UNCHANGED <<build, conn, wire>>

NewTimeTzBinaryDumper ==
    /\ Construct("TimeTzBinaryDumper.__init__", TRUE, Stateless("TimeTzBinaryDumper"))
    /\ UNCHANGED <<build, conn, wire>>

NewTimeBinaryLoader ==
    /\ Construct("TimeBinaryLoader.__init__", TRUE, Stateless("TimeBinaryLoader"))
    /\ UNCHANGED <<build, conn, wire>>

NewTimetzBinaryLoader ==
    /\ Construct("TimetzBinaryLoader.__init__", TRUE, Stateless("TimetzBinaryLoader"))
    /\ UNCHANGED <<build, conn, wire>>

TimeBinaryDumperDump ==
    /\ self.cls = "TimeBinaryDumper"
    /\ \E obj \in SampleNaiveTimes \cup SampleAwareTimes(build) :
           Dump("TimeBinaryDumper.dump", obj, TimeBinaryDumper_dump(obj))
    /\ UNCHANGED <<build, conn, self, ctor>>

TimeTzBinaryDumperDump ==
    /\ self.cls = "TimeTzBinaryDumper"
    /\ \E obj \in SampleNaiveTimes \cup SampleAwareTimes(build) :
           Dump("TimeTzBinaryDumper.dump", obj, TimeTzBinaryDumper_dump(obj))
    /\ UNCHANGED <<build, conn, self, ctor>>

\* TimeBinaryLoader.load of the bytes a TimeBinaryDumper dumped.
TimeBinaryLoaderLoadDumped ==
    /\ self.cls = "TimeBinaryLoader"
    /\ wire # NoWire /\ wire.from = "TimeBinaryDumper.dump"
    /\ Load("TimeBinaryLoader.load", TRUE, wire.data,
            TimeBinaryLoader_load(build, wire.data))
    /\ UNCHANGED <<build, conn, self, ctor>>

\* TimeBinaryLoader.load of bytes of the server.
TimeBinaryLoaderLoad ==
    /\ self.cls = "TimeBinaryLoader"
    /\ \E data \in TimeBinaryInputs :
           Load("TimeBinaryLoader.load", FALSE, data, TimeBinaryLoader_load(build, data))
    /\ UNCHANGED <<build, conn, self, ctor>>

\* TimetzBinaryLoader.load of the bytes a TimeTzBinaryDumper dumped.
TimetzBinaryLoaderLoadDumped ==
    /\ self.cls = "TimetzBinaryLoader"
    /\ wire # NoWire /\ wire.from = "TimeTzBinaryDumper.dump"
    /\ Load("TimetzBinaryLoader.load", TRUE, wire.data,
            TimetzBinaryLoader_load(build, wire.data))
    /\ UNCHANGED <<build, conn, self, ctor>>

\* TimetzBinaryLoader.load of bytes of the server.
TimetzBinaryLoaderLoad ==
    /\ self.cls = "TimetzBinaryLoader"
    /\ \E data \in TimetzBinaryInputs :
           Load("TimetzBinaryLoader.load", FALSE, data,
                TimetzBinaryLoader_load(build, data))
    /\ UNCHANGED <<build, conn, self, ctor>>

(***************************************************************************)
(* Actions: timestamptz in binary format.                                  *)
(***************************************************************************)
\* The UTC offsets of the sampled timestamps and of the connection's
\* TimeZone, in seconds: UTC, whole hours, half an hour and a local mean
\* time.
SampleZoneSeconds == {0, 18000, -18000, 19800, -3208}

OffsetOfSeconds(sec) == Timedelta(sec \div 86400, sec % 86400, 0)

\* Wall times: the first and the last NEdge microseconds of the host's
\* range, the same five hours inside the range, the epoch and
\* the microsecond before it, and an afternoon.
SampleWallTimes ==
    {r.val : r \in {x \in
        {datetime_add(datetime_min, Timedelta(0, sec, k)) :
             sec \in {0, 18000}, k \in 0..(NEdge - 1)}
        \cup {datetime_add(datetime_max, Timedelta(0, 0 - sec, 0 - k)) :
             sec \in {0, 18000}, k \in 0..(NEdge - 1)}
        \cup {datetime_add(pg_datetime_epoch, Timedelta(0, 0, 0 - k)) : k \in 0..1}
        \cup {Return(Datetime(Date(2021, 2, 28), 13, 7, 42, 123456, NoTz))} :
        Returned(x)}}

SampleAwareTimestamps ==
    {replace_tzinfo(dt, FixedTz(OffsetOfSeconds(sec))) :
        dt \in SampleWallTimes, sec \in SampleZoneSeconds}

\* The microseconds from the epoch to datetime.min and to datetime.max.
MinMicros == delta_micros(timedelta_sub(datetime_wall(datetime_min),
                                        datetime_wall(pg_datetime_epoch)))
MaxMicros == delta_micros(timedelta_sub(datetime_wall(datetime_max),
                                        datetime_wall(pg_datetime_epoch)))

\* int8 microseconds of a timestamp: around the epoch, the ends of the
\* host's range and the same shifted by each offset, and the least and the
\* greatest int8.
TimestampBinaryCenters ==
    {W(0), Int8Min, WNot(Int8Min)}
    \cup {WSub(c, WMul(W(sec), 1000000)) :
             c \in {MinMicros, MaxMicros}, sec \in SampleZoneSeconds}
TimestampBinaryInputs ==
    {pack_int8(w) : w \in {v \in {WAdd(c, W(k)) : c \in TimestampBinaryCenters,
                                                  k \in EdgeOffsets} :
                              WFitsBytes(v, 8)}}

NewDatetimeBinaryDumper ==
    /\ Construct("DatetimeBinaryDumper.__init__", TRUE, Stateless("DatetimeBinaryDumper"))
    /\ UNCHANGED <<build, conn, wire>>

NewTimestamptzBinaryLoader ==
    /\ \E c \in BOOLEAN :
           Construct("TimestamptzBinaryLoader.__init__", c,
                     TimestamptzBinaryLoader_init(Connection(c)))
    /\ UNCHANGED <<build, conn, wire>>

DatetimeBinaryDumperDump ==
    /\ self.cls = "DatetimeBinaryDumper"
    /\ \E obj \in SampleAwareTimestamps \cup {datetime_min, datetime_max} :
           Dump("DatetimeBinaryDumper.dump", obj, DatetimeBinaryDumper_dump(obj))
    /\ UNCHANGED <<build, conn, self, ctor>>

\* TimestamptzBinaryLoader.load of the bytes a DatetimeBinaryDumper dumped.
TimestamptzBinaryLoaderLoadDumped ==
    /\ self.cls = "TimestamptzBinaryLoader"
    /\ wire # NoWire /\ wire.from = "DatetimeBinaryDumper.dump"
    /\ Load("TimestamptzBinaryLoader.load", TRUE, wire.data,
            TimestamptzBinaryLoader_load(self, wire.data))
    /\ UNCHANGED <<build, conn, self, ctor>>

\* TimestamptzBinaryLoader.load of bytes of the server.
TimestamptzBinaryLoaderLoad ==
    /\ self.cls = "TimestamptzBinaryLoader"
    /\ \E data \in TimestampBinaryInputs :
           Load("TimestamptzBinaryLoader.load", FALSE, data,
                TimestamptzBinaryLoader_load(self, data))
    /\ UNCHANGED <<build, conn, self, ctor>>

(***************************************************************************)
(* Actions: interval in binary format.                                     *)
(***************************************************************************)
\* Microseconds, days and months of the sampled intervals: small ones of
\* both signs, the ends of int8 and int4, and the days at the ends of the
\* host's timedelta.
IntervalMicros ==
    {W(0), W(-1), Int8Min, WNot(Int8Min)}
    \cup {WMul(W(86400 * k), 1000000) : k \in 1..(NEdge - 1)}
IntervalDays ==
    {W(5), W(-5), W(INT4_MAX), Int4Min}
    \cup {W(k * (MAX_DELTA_DAYS - e)) : k \in {-1, 1}, e \in 0..(NEdge - 1)}
IntervalMonths ==
    {W(0), W(14), W(-14), W(INT4_MAX), Int4Min}
    \cup {W(k * (12 - e)) : k \in {-1, 1}, e \in 0..(NEdge - 1)}
\* Every days with every months, and with every microseconds.
IntervalBinaryInputs ==
    {pack_interval(W(0), d, mo) : d \in IntervalDays, mo \in IntervalMonths}
    \cup {pack_interval(m, d, W(0)) : m \in IntervalMicros, d \in IntervalDays}
    \cup {pack_interval(W(0), W(0), W(0)), pack_interval(W(-1), W(-5), W(-14))}

NewIntervalBinaryLoader ==
    /\ Construct("IntervalBinaryLoader.__init__", TRUE, Stateless("IntervalBinaryLoader"))
    /\ UNCHANGED <<build, conn, wire>>

\* IntervalBinaryLoader.load of bytes of the server.
IntervalBinaryLoaderLoad ==
    /\ self.cls = "IntervalBinaryLoader"
    /\ \E data \in IntervalBinaryInputs :
           Load("IntervalBinaryLoader.load", FALSE, data, IntervalBinaryLoader_load(data))
    /\ UNCHANGED <<build, conn, self, ctor>>

(***************************************************************************)
(* Actions: the styles of the connection, and the adapters in text format  *)
(* that depend on them.                                                    *)
(***************************************************************************)
\* The styles the server changes to.
StyleDateStyles == {DS_ISO_DMY, DS_SQL_MDY, DS_PG_DMY, DS_UNKNOWN}
StyleIntervalStyles == {IS_POSTGRES, IS_SQL_STANDARD, IS_UNKNOWN}

TimestampTextInputs == {
    <<"2", "0", "0", "0", "-", "0", "1", "-", "0", "1", " ", "0", "0", ":", "0", "0", ":", "0", "0">>,
    <<"1", "9", "9", "9", "-", "1", "2", "-", "3", "1", "T", "2", "3", ":", "5", "9", ":", "5", "9", ".", "5">>,
    <<"1", "2", "/", "3", "1", "/", "1", "9", "9", "9", " ", "2", "3", ":", "5", "9", ":", "5", "9", ".", "1", "2", "3", "4", "5", "6">>,
    <<"F", "r", "i", " ", "3", "1", " ", "D", "e", "c", " ", "2", "3", ":", "5", "9", ":", "5", "9", ".", "2", "5", " ", "1", "9", "9", "9">>,
    <<"F", "r", "i", " ", "D", "e", "c", " ", "3", "1", " ", "2", "3", ":", "5", "9", ":", "5", "9", " ", "1", "9", "9", "9">>,
    <<"0", "0", "4", "4", "-", "0", "3", "-", "1", "5", " ", "0", "0", ":", "0", "0", ":", "0", "0", " ", "B", "C">>,
    <<"x">>}

TimestamptzTextInputs == {
    <<"9", "9", "9", "9", "-", "1", "2", "-", "3", "1", " ", "2", "3", ":", "5", "9", ":", "5", "9", "-", "2", "4">>,
    <<"9", "9", "9", "9", "-", "1", "2", "-", "3", "1", " ", "2", "3", ":", "0", "0", ":", "0", "0", "+", "0", "0">>,
    <<"0", "0", "0", "1", "-", "0", "1", "-", "0", "1", " ", "0", "0", ":", "3", "0", ":", "0", "0", "-", "0", "0", ":", "0", "0", ":", "3", "0">>,
    <<"1", "0", "0", "0", "0", "-", "0", "1", "-", "0", "1", " ", "0", "0", ":", "0", "0", ":", "0", "0", "+", "0", "0">>,
    <<"2", "0", "0", "0", "-", "0", "1", "-", "0", "1", " ", "0", "0", ":", "0", "0", ":", "0", "0", "+", "0", "0">>,
    <<"2", "0", "2", "1", "-", "0", "2", "-", "2", "8", " ", "1", "3", ":", "0", "7", ":", "4", "2", ".", "1", "2", "3", "4", "5", "6", "-", "0", "5", ":", "3", "0">>,
    <<"9", "9", "9", "9", "-", "1", "2", "-", "3", "1", " ", "2", "3", ":", "5", "9", ":", "5", "9", ".", "9", "9", "9", "9", "9", "9", "-", "0", "5">>,
    <<"0", "0", "0", "1", "-", "0", "1", "-", "0", "1", " ", "0", "0", ":", "0", "0", ":", "0", "0", "+", "0", "0", ":", "5", "3", ":", "2", "8">>,
    <<"0", "0", "4", "4", "-", "0", "3", "-", "1", "5", " ", "0", "0", ":", "0", "0", ":", "0", "0", "+", "0", "0", " ", "B", "C">>,
    <<"x">>}

IntervalTextInputs == {
    <<"1", " ", "y", "e", "a", "r", " ", "2", " ", "m", "o", "n", "s", " ", "3", " ", "d", "a", "y", "s", " ", "0", "4", ":", "0", "5", ":", "0", "6", ".", "7", "8", "9">>,
    <<"-", "1", " ", "d", "a", "y", "s", " ", "+", "0", "0", ":", "0", "0", ":", "0", "1">>,
    <<"0", "0", ":", "0", "0", ":", "0", "0">>,
    <<"1", "0", "0", "0", "0", "0", "0", "0", "0", "0", " ", "d", "a", "y", "s">>,
    <<"@", " ", "1", " ", "d", "a", "y">>,
    <<"1", "-", "2">>,
    <<"P", "1", "Y">>}

\* The timedeltas dumped: of both signs, of one day and of more, with and
\* without seconds and microseconds, and the least and the greatest.
SampleTimedeltas ==
    {Timedelta(d, sec, us) : d \in {0, 1, -1} \cup {2 - NEdge, NEdge},
                             sec \in {0, 1, 36000}, us \in {0, 5}}
    \cup {Timedelta(0 - MAX_DELTA_DAYS, 0, 0), Timedelta(MAX_DELTA_DAYS, 86399, 999999)}

\* The connection of the instance this, as it is now.
ConnectionOf(this) == Connection(this.connection)

\* The server reports a new DateStyle, a new IntervalStyle.
SetDateStyle ==
    /\ \E ds \in StyleDateStyles \ {conn.DateStyle} : conn' = [conn EXCEPT !.DateStyle = ds]
    /\ UNCHANGED <<build, self, ctor, wire, out>>

SetIntervalStyle ==
    /\ \E ints \in StyleIntervalStyles \ {conn.IntervalStyle} :
           conn' = [conn EXCEPT !.IntervalStyle = ints]
    /\ UNCHANGED <<build, self, ctor, wire, out>>

NewTimestampLoader ==
    /\ \E c \in BOOLEAN :
           Construct("TimestampLoader.__init__", c, TimestampLoader_init(Connection(c)))
    /\ UNCHANGED <<build, conn, wire>>

NewTimestamptzLoader ==
    /\ \E c \in BOOLEAN :
           Construct("TimestamptzLoader.__init__", c,
                     TimestamptzLoader_init(Connection(c)))
    /\ UNCHANGED <<build, conn, wire>>

NewIntervalLoader ==
    /\ \E c \in BOOLEAN :
           Construct("IntervalLoader.__init__", c, IntervalLoader_init(Connection(c)))
    /\ UNCHANGED <<build, conn, wire>>

NewTimedeltaDumper ==
    /\ \E c \in BOOLEAN :
           Construct("TimedeltaDumper.__init__", c, TimedeltaDumper_init(Connection(c)))
    /\ UNCHANGED <<build, conn, wire>>

\* TimestampLoader.load of text of the server.
TimestampLoaderLoad ==
    /\ self.cls = "TimestampLoader"
    /\ \E data \in TimestampTextInputs :
           Load("TimestampLoader.load", FALSE, data,
                TimestampLoader_load(build, self, data))
    /\ UNCHANGED <<build, conn, self, ctor>>

\* The load of a TimestamptzLoader, of text of the server.
TimestamptzLoaderLoad ==
    /\ self.cls = "TimestamptzLoader"
    /\ \E data \in TimestamptzTextInputs :
           Load("TimestamptzLoader.load", FALSE, data,
                TimestamptzLoader_call(build, self, ConnectionOf(self), data))
    /\ UNCHANGED <<build, conn, self, ctor>>

\* The load of an IntervalLoader, of text of the server.
IntervalLoaderLoad ==
    /\ self.cls = "IntervalLoader"
    /\ \E data \in IntervalTextInputs :
           Load("IntervalLoader.load", FALSE, data,
                IntervalLoader_call(self, ConnectionOf(self), data))
    /\ UNCHANGED <<build, conn, self, ctor>>

\* The dump of a TimedeltaDumper; the text goes to the server.
TimedeltaDumperDump ==
    /\ self.cls = "TimedeltaDumper"
    /\ \E obj \in SampleTimedeltas :
           out' = Call("TimedeltaDumper.dump", obj, TimedeltaDumper_call(self, obj))
    /\ UNCHANGED <<build, conn, self, ctor, wire>>

(***************************************************************************)
(* Actions: the loaders of time and timetz in text format, and of          *)
(* timestamp in binary format.                                             *)
(***************************************************************************)
\* Texts of a time: plain, with a fraction, followed by more, out of range,
\* an hour that fits no C int, and no time.
TimeTextInputs == {
    <<"0", "0", ":", "0", "0", ":", "0", "0">>,
    <<"2", "3", ":", "5", "9", ":", "5", "9", ".", "9", "9", "9", "9", "9", "9">>,
    <<"1", "2", ":", "3", "4", ":", "5", "6", ".", "5", "x", "y", "z">>,
    <<"2", "4", ":", "0", "0", ":", "0", "0">>,
    <<"9", "9", "9", "9", "9", "9", "9", "9", "9", "9", "9", ":", "0", "0", ":", "0", "0">>,
    <<"x">>}

\* Texts of a timetz: offsets of hours, minutes and seconds, of both signs,
\* of 24 hours, an hour that fits no C int, and no timetz.
TimetzTextInputs == {
    <<"1", "0", ":", "0", "0", ":", "0", "0", "+", "0", "0">>,
    <<"1", "0", ":", "0", "0", ":", "0", "0", ".", "5", "-", "0", "5", ":", "3", "0">>,
    <<"1", "0", ":", "0", "0", ":", "0", "0", "+", "0", "1", ":", "0", "2", ":", "0", "3">>,
    <<"1", "0", ":", "0", "0", ":", "0", "0", "+", "0", "0", ":", "0", "0", ":", "3", "0">>,
    <<"1", "0", ":", "0", "0", ":", "0", "0", "-", "2", "3", ":", "5", "9">>,
    <<"1", "0", ":", "0", "0", ":", "0", "0", "+", "2", "4">>,
    <<"1", "0", ":", "0", "0", ":", "0", "0", "-", "2", "4", ":", "0", "0">>,
    <<"2", "4", ":", "0", "0", ":", "0", "0", "+", "0", "0">>,
    <<"9", "9", "9", "9", "9", "9", "9", "9", "9", "9", "9", ":", "0", "0", ":", "0", "0", "+", "0", "0">>,
    <<"1", "0", ":", "0", "0", ":", "0", "0">>,
    <<"x">>}

NewTimeLoader ==
    /\ Construct("TimeLoader.__init__", TRUE, Stateless("TimeLoader"))
    /\ UNCHANGED <<build, conn, wire>>

NewTimetzLoader ==
    /\ Construct("TimetzLoader.__init__", TRUE, Stateless("TimetzLoader"))
    /\ UNCHANGED <<build, conn, wire>>

NewTimestampBinaryLoader ==
    /\ Construct("TimestampBinaryLoader.__init__", TRUE, Stateless("TimestampBinaryLoader"))
    /\ UNCHANGED <<build, conn, wire>>

\* TimeLoader.load of text of the server.
TimeLoaderLoad ==
    /\ self.cls = "TimeLoader"
    /\ \E data \in TimeTextInputs :
           Load("TimeLoader.load", FALSE, data, TimeLoader_load(build, data))
    /\ UNCHANGED <<build, conn, self, ctor>>

\* TimetzLoader.load of text of the server.
TimetzLoaderLoad ==
    /\ self.cls = "TimetzLoader"
    /\ \E data \in TimetzTextInputs :
           Load("TimetzLoader.load", FALSE, data, TimetzLoader_load(build, data))
    /\ UNCHANGED <<build, conn, self, ctor>>

\* TimestampBinaryLoader.load of bytes of the server.
TimestampBinaryLoaderLoad ==
    /\ self.cls = "TimestampBinaryLoader"
    /\ \E data \in TimestampBinaryInputs :
           Load("TimestampBinaryLoader.load", FALSE, data,
                TimestampBinaryLoader_load(data))
    /\ UNCHANGED <<build, conn, self, ctor>>

(***************************************************************************)
(* Actions: the dumpers of time and datetime asked for the dumper a value  *)
(* needs.                                                                  *)
(***************************************************************************)
\* The times and the datetimes asked about: without a tzinfo, and with the
\* tzinfo of each offset (the offset zero among them).
UpgradeTimes(b) ==
    SampleNaiveTimes \cup {Time(13, 7, 42, 123456, tz) : tz \in SampleTzinfos(b)}
UpgradeDatetimes(b) ==
    SampleWallTimes
    \cup {Datetime(Date(2021, 2, 28), 13, 7, 42, 123456, tz) : tz \in SampleTzinfos(b)}

\* A dumper of time is constructed for the class time.
NewTimeDumper ==
    /\ \E name \in TimeDumpers :
           Construct(name \o ".__init__", TRUE, Dumper_init(name, "time"))
    /\ UNCHANGED <<build, conn, wire>>

\* A dumper of datetime is constructed for the class datetime.
NewDatetimeDumper ==
    /\ \E name \in DatetimeDumpers :
           Construct(name \o ".__init__", TRUE, Dumper_init(name, "datetime"))
    /\ UNCHANGED <<build, conn, wire>>

\* get_key of a dumper of time.
TimeDumperGetKey ==
    /\ self.cls \in TimeDumpers
    /\ \E obj \in UpgradeTimes(build) :
           out' = Call("get_key", obj, Dumper_get_key(self, obj))
    /\ UNCHANGED <<build, conn, self, ctor, wire>>

\* upgrade of a dumper of time.
TimeDumperUpgrade ==
    /\ self.cls \in TimeDumpers
    /\ \E obj \in UpgradeTimes(build) :
           out' = Call("upgrade", obj, Dumper_upgrade(self, obj))
    /\ UNCHANGED <<build, conn, self, ctor, wire>>

\* get_key of a dumper of datetime.
DatetimeDumperGetKey ==
    /\ self.cls \in DatetimeDumpers
    /\ \E obj \in UpgradeDatetimes(build) :
           out' = Call("get_key", obj, Dumper_get_key(self, obj))
    /\ UNCHANGED <<build, conn, self, ctor, wire>>

\* upgrade of a dumper of datetime.
DatetimeDumperUpgrade ==
    /\ self.cls \in DatetimeDumpers
    /\ \E obj \in UpgradeDatetimes(build) :
           out' = Call("upgrade", obj, Dumper_upgrade(self, obj))
    /\ UNCHANGED <<build, conn, self, ctor, wire>>

InitBase ==
    /\ self = NoObj
    /\ ctor = NoConn
    /\ wire = NoWire
    /\ out = NoCall

DefaultConn ==
    [some |-> TRUE, DateStyle |-> DS_ISO_DMY, IntervalStyle |-> IS_POSTGRES,
     TimeZone |-> 0]

\* Dates in text format, under every DateStyle.
InitDate ==
    /\ build = [cdatetime |-> TRUE, py37 |-> TRUE]
    /\ conn \in {[DefaultConn EXCEPT !.DateStyle = ds] : ds \in DateStyles}
    /\ InitBase

NextDate ==
    \/ NewDateDumper
    \/ NewDateLoader
    \/ DateDumperDump
    \/ DateLoaderLoadDumped
    \/ DateLoaderLoad

SpecDate == InitDate /\ [][NextDate]_vars

\* Dates in binary format, on every build of the host.
InitDateBinary ==
    /\ build \in [cdatetime : BOOLEAN, py37 : {TRUE}]
    /\ conn = DefaultConn
    /\ InitBase

NextDateBinary ==
    \/ NewDateBinaryDumper
    \/ NewDateBinaryLoader
    \/ DateBinaryDumperDump
    \/ DateBinaryLoaderLoadDumped
    \/ DateBinaryLoaderLoad

SpecDateBinary == InitDateBinary /\ [][NextDateBinary]_vars


\* Times in binary format, on every build of the host.
InitTime ==
    /\ build \in [cdatetime : BOOLEAN, py37 : BOOLEAN]
    /\ conn = DefaultConn
    /\ InitBase

NextTime ==
    \/ NewTimeBinaryDumper
    \/ NewTimeTzBinaryDumper
    \/ NewTimeBinaryLoader
    \/ NewTimetzBinaryLoader
    \/ TimeBinaryDumperDump
    \/ TimeTzBinaryDumperDump
    \/ TimeBinaryLoaderLoadDumped
    \/ TimeBinaryLoaderLoad
    \/ TimetzBinaryLoaderLoadDumped
    \/ TimetzBinaryLoaderLoad

SpecTime == InitTime /\ [][NextTime]_vars


\* Timestamps with time zone in binary format, under every TimeZone.
InitTstz ==
    /\ build = [cdatetime |-> TRUE, py37 |-> TRUE]
    /\ conn \in {[DefaultConn EXCEPT !.TimeZone = sec] : sec \in SampleZoneSeconds}
    /\ InitBase

NextTstz ==
    \/ NewDatetimeBinaryDumper
    \/ NewTimestamptzBinaryLoader
    \/ DatetimeBinaryDumperDump
    \/ TimestamptzBinaryLoaderLoadDumped
    \/ TimestamptzBinaryLoaderLoad

SpecTstz == InitTstz /\ [][NextTstz]_vars


\* Intervals in binary format.
InitInterval ==
    /\ build \in [cdatetime : BOOLEAN, py37 : {TRUE}]
    /\ conn = DefaultConn
    /\ InitBase

NextInterval ==
    \/ NewIntervalBinaryLoader
    \/ IntervalBinaryLoaderLoad

SpecInterval == InitInterval /\ [][NextInterval]_vars


\* The loaders in text format, while the server changes the styles.
InitStyle ==
    /\ build = [cdatetime |-> TRUE, py37 |-> TRUE]
    /\ conn = DefaultConn
    /\ InitBase

NextStyle ==
    \/ SetDateStyle
    \/ SetIntervalStyle
    \/ NewDateLoader
    \/ NewTimestampLoader
    \/ NewTimestamptzLoader
    \/ NewIntervalLoader
    \/ DateLoaderLoad
    \/ TimestampLoaderLoad
    \/ TimestamptzLoaderLoad
    \/ IntervalLoaderLoad

SpecStyle == InitStyle /\ [][NextStyle]_vars

\* The dumper of timedelta, under every IntervalStyle and while the server
\* changes it.
InitTimedelta ==
    /\ build = [cdatetime |-> TRUE, py37 |-> TRUE]
    /\ conn \in {[DefaultConn EXCEPT !.IntervalStyle = ints] :
                    ints \in {None, IS_POSTGRES, IS_SQL_STANDARD, IS_ISO_8601,
                              IS_PG_VERBOSE, IS_UNKNOWN}}
    /\ InitBase

NextTimedelta ==
    \/ SetIntervalStyle
    \/ NewTimedeltaDumper
    \/ TimedeltaDumperDump

SpecTimedelta == InitTimedelta /\ [][NextTimedelta]_vars

\* Every loader of the module, on every build of the host, loading what the
\* server sends.
InitDecode ==
    /\ build \in [cdatetime : BOOLEAN, py37 : BOOLEAN]
    /\ conn = DefaultConn
    /\ InitBase

NextDecode ==
    \/ NewDateLoader
    \/ NewDateBinaryLoader
    \/ NewTimeLoader
    \/ NewTimeBinaryLoader
    \/ NewTimetzLoader
    \/ NewTimetzBinaryLoader
    \/ NewTimestampLoader
    \/ NewTimestampBinaryLoader
    \/ NewTimestamptzLoader
    \/ NewTimestamptzBinaryLoader
    \/ NewIntervalLoader
    \/ NewIntervalBinaryLoader
    \/ DateLoaderLoad
    \/ DateBinaryLoaderLoad
    \/ TimeLoaderLoad
    \/ TimeBinaryLoaderLoad
    \/ TimetzLoaderLoad
    \/ TimetzBinaryLoaderLoad
    \/ TimestampLoaderLoad
    \/ TimestampBinaryLoaderLoad
    \/ TimestamptzLoaderLoad
    \/ TimestamptzBinaryLoaderLoad
    \/ IntervalLoaderLoad
    \/ IntervalBinaryLoaderLoad

SpecDecode == InitDecode /\ [][NextDecode]_vars

\* The dumpers of time and datetime, asked which dumper each value needs.
InitUpgrade ==
    /\ build \in [cdatetime : {TRUE}, py37 : BOOLEAN]
    /\ conn = DefaultConn
    /\ InitBase

NextUpgrade ==
    \/ NewTimeDumper
    \/ NewDatetimeDumper
    \/ TimeDumperGetKey
    \/ TimeDumperUpgrade
    \/ DatetimeDumperGetKey
    \/ DatetimeDumperUpgrade

SpecUpgrade == InitUpgrade /\ [][NextUpgrade]_vars

\* The loader of timestamptz in text format, before and from Python 3.7 and
\* under every TimeZone.
InitTstzText ==
    /\ build \in [cdatetime : {TRUE}, py37 : BOOLEAN]
    /\ conn \in {[DefaultConn EXCEPT !.TimeZone = sec] : sec \in SampleZoneSeconds}
    /\ InitBase

NextTstzText ==
    \/ NewTimestamptzLoader
    \/ TimestamptzLoaderLoad

SpecTstzText == InitTstzText /\ [][NextTstzText]_vars

(***************************************************************************)
(* Properties.                                                             *)
(***************************************************************************)
\* The last call was op, of the bytes a dumper put on the wire.
LoadedDumped(op) == out.op = op /\ out.sent # NoWire

\* The DateStyle in force when self was constructed orders dates as ISO
\* (year first): an ISO style, or none reported, or no connection.
CtorIsoOrder ==
    ~ctor.some \/ ctor.DateStyle \in {None, DS_ISO_DMY, DS_ISO_MDY}
\* It is one of the other styles the server knows.
CtorOtherOrder ==
    ctor.some /\ ctor.DateStyle \in {DS_GERMAN, DS_SQL_DMY, DS_SQL_MDY, DS_PG_DMY, DS_PG_MDY}

\* C1 as stated: under every supported date-order setting, DateLoader.load
\* decodes the text DateDumper.dump(d) produced back to d.
C1_RoundTripEveryOrder ==
    LoadedDumped("DateLoader.load") =>
        Returned(out.ret) /\ out.ret.val = out.sent.obj

\* C1 amended: DateDumper.dump(d) is the 10 characters YYYY-MM-DD; a
\* DateLoader constructed under an ISO DateStyle (or the default) decodes
\* them back to d, and one constructed under a German, SQL or Postgres
\* DateStyle, which slices the text as DD?MM?YYYY or MM?DD?YYYY, fails on
\* them with DataError "can't parse date".
C1_RoundTripIsoOnly ==
    LoadedDumped("DateLoader.load") =>
        /\ Len(out.arg) = 10 /\ out.arg[5] = "-" /\ out.arg[8] = "-"
        /\ CtorIsoOrder \/ CtorOtherOrder
        /\ CtorIsoOrder => Returned(out.ret) /\ out.ret.val = out.sent.obj
        /\ CtorOtherOrder => out.ret = Raise("DataError", "can't parse date")

\* C1: the first date of the calendar came back under DateStyle "ISO, MDY".
C1_Witness ==
    /\ LoadedDumped("DateLoader.load")
    /\ ctor.some /\ ctor.DateStyle = DS_ISO_MDY
    /\ Returned(out.ret) /\ out.ret.val = date_min

\* C2: DateBinaryDumper.dump(d) is the signed 32-bit number of days from
\* 2000-01-01 to d, and DateBinaryLoader.load of it returns d.
C2_DateBinaryRoundTrip ==
    LoadedDumped("DateBinaryLoader.load") =>
        /\ Len(out.arg) = 4
        /\ WAdd(UnpackBE(out.arg), W(toordinal(Date(2000, 1, 1))))
               = W(toordinal(out.sent.obj))
        /\ Returned(out.ret) /\ out.ret.val = out.sent.obj

\* C2: the host minimum date made the round trip (a negative offset).
C2_Witness ==
    /\ LoadedDumped("DateBinaryLoader.load")
    /\ out.sent.obj = date_min
    /\ Returned(out.ret)

\* C7 as stated: DateBinaryLoader.load of an int4 day offset succeeds if and
\* only if the date is in the host's range, and fails otherwise with the
\* DataError "too small" when the ordinal is below the minimum ordinal, and
\* "too large" in every other failing case.
C7_RangeClassified ==
    out.op = "DateBinaryLoader.load" =>
        LET days == WAdd(UnpackBE(out.arg), W(pg_date_epoch_days))
            inrange == WLeq(W(py_date_min_days), days) /\ WLeq(days, W(MAXORDINAL))
        IN  /\ Returned(out.ret) <=> inrange
            /\ ~inrange =>
                   out.ret = IF WLess(days, W(py_date_min_days))
                             THEN Raise("DataError", "date too small (before year 1)")
                             ELSE Raise("DataError", "date too large (after year 10K)")

\* The offset of the time t is a whole number of seconds.
WholeSecondOffset(t) == t.tzinfo.aware /\ t.tzinfo.utcoffset.microseconds = 0

\* The microseconds from midnight to the time t, as a Python integer.
MicrosSinceMidnight(t) ==
    WAdd(WMul(W((t.hour * 60 + t.minute) * 60 + t.second), 1000000),
         W(t.microsecond))

\* C4: the bytes TimeTzBinaryDumper.dump makes of a time t whose UTC offset
\* is a whole number of seconds are the int8 microseconds since midnight and
\* the int4 negated offset in seconds, and TimetzBinaryLoader.load of them
\* returns a time of the same hour, minute, second, microsecond and offset;
\* TimeBinaryLoader.load of the bytes TimeBinaryDumper.dump makes of a time
\* t without offset returns t.
C4_TimeBinaryRoundTrip ==
    /\ LoadedDumped("TimetzBinaryLoader.load") /\ WholeSecondOffset(out.sent.obj) =>
           LET t == out.sent.obj
               off == t.tzinfo.utcoffset
           IN  /\ Len(out.arg) = 12
               /\ UnpackBE(SubSeq(out.arg, 1, 8)) = MicrosSinceMidnight(t)
               /\ UnpackBE(SubSeq(out.arg, 9, 12))
                      = W(0 - (off.days * 86400 + off.seconds))
               /\ Returned(out.ret) /\ out.ret.val = t
    /\ LoadedDumped("TimeBinaryLoader.load") /\ ~out.sent.obj.tzinfo.aware =>
           /\ Len(out.arg) = 8
           /\ UnpackBE(out.arg) = MicrosSinceMidnight(out.sent.obj)
           /\ Returned(out.ret) /\ out.ret.val = out.sent.obj

\* C4: the last microsecond of the day, 5 hours behind UTC, made the round
\* trip.
C4_Witness ==
    /\ LoadedDumped("TimetzBinaryLoader.load")
    /\ out.sent.obj = Time(23, 59, 59, 999999, FixedTz(Timedelta(-1, 68400, 0)))
    /\ Returned(out.ret)


\* The microseconds from the day before 0001-01-01 to the wall time of dt.
WallMicros(dt) ==
    WAdd(WMul(WAdd(WMul(W(toordinal(dt)), 86400),
                   W(dt.hour * 3600 + dt.minute * 60 + dt.second)), 1000000),
         W(dt.microsecond))

\* The seconds of the UTC offset of the timezone tz, a whole number.
ZoneSeconds(tz) == tz.utcoffset.days * 86400 + tz.utcoffset.seconds

\* The same for the instant of an aware dt: its wall time less its offset.
InstantMicros(dt) == WSub(WallMicros(dt), WMul(W(ZoneSeconds(dt.tzinfo)), 1000000))

\* The wall time at the timezone tz of the instant 'instant' is one the
\* host represents, is before the first, is after the last.
WallAt(instant, tz) == WAdd(instant, WMul(W(ZoneSeconds(tz)), 1000000))
WallInRange(instant, tz) ==
    /\ WLeq(WallMicros(datetime_min), WallAt(instant, tz))
    /\ WLeq(WallAt(instant, tz), WallMicros(datetime_max))

\* C3 as stated: TimestamptzBinaryLoader.load of the bytes
\* DatetimeBinaryDumper.dump made of an offset-aware timestamp t succeeds
\* and returns a timestamp of the same instant, whatever the timezone of the
\* loader.
C3_TstzRoundTrip ==
    LoadedDumped("TimestamptzBinaryLoader.load") /\ out.sent.obj.tzinfo.aware =>
        /\ Returned(out.ret)
        /\ InstantMicros(out.ret.val) = InstantMicros(out.sent.obj)

\* C3 amended: the load succeeds exactly when the instant of t has a wall
\* time within datetime.min .. datetime.max at the timezone of the loader;
\* it then returns a timestamp of the same instant at that timezone, and
\* otherwise it fails with the DataError "too small" or "too large".
C3_TstzRoundTripInRange ==
    LoadedDumped("TimestamptzBinaryLoader.load") /\ out.sent.obj.tzinfo.aware =>
        LET t == InstantMicros(out.sent.obj)
        IN  IF WallInRange(t, self.timezone)
            THEN /\ Returned(out.ret)
                 /\ InstantMicros(out.ret.val) = t
                 /\ out.ret.val.tzinfo = self.timezone
            ELSE out.ret =
                     IF WLess(WallAt(t, self.timezone), WallMicros(datetime_min))
                     THEN Raise("DataError", "timestamp too small (before year 1)")
                     ELSE Raise("DataError", "timestamp too large (after year 10K)")

\* C3: datetime.max five hours behind UTC came back from a loader at the
\* same offset.
C3_Witness ==
    /\ LoadedDumped("TimestamptzBinaryLoader.load")
    /\ out.sent.obj = replace_tzinfo(datetime_max, FixedTz(OffsetOfSeconds(-18000)))
    /\ self.timezone = FixedTz(OffsetOfSeconds(-18000))
    /\ Returned(out.ret)

\* C3: datetime.max five hours behind UTC did not come back from a loader
\* at UTC.
C3_Lost ==
    /\ LoadedDumped("TimestamptzBinaryLoader.load")
    /\ out.sent.obj = replace_tzinfo(datetime_max, FixedTz(OffsetOfSeconds(-18000)))
    /\ self.timezone = utc
    /\ ~Returned(out.ret)

\* C9: TimestamptzBinaryLoader.load of the int8 microseconds m by a loader
\* whose timezone has a nonzero offset returns, whenever the wall time of
\* epoch + m at that timezone is within datetime.min .. datetime.max, the
\* timestamp of that wall time carrying the timezone (also when epoch + m
\* itself is not within the range); otherwise it fails, with the DataError
\* "too small" when m <= 0 and "too large" when m > 0.
C9_RescuedAtOffset ==
    out.op = "TimestamptzBinaryLoader.load" /\ ZoneSeconds(self.timezone) # 0 =>
        LET m == UnpackBE(out.arg)
            instant == WAdd(WallMicros(pg_datetime_epoch), m)
        IN  IF WallInRange(instant, self.timezone)
            THEN /\ Returned(out.ret)
                 /\ WallMicros(out.ret.val) = WallAt(instant, self.timezone)
                 /\ out.ret.val.tzinfo = self.timezone
            ELSE out.ret =
                     IF WLeq(m, W(0))
                     THEN Raise("DataError", "timestamp too small (before year 1)")
                     ELSE Raise("DataError", "timestamp too large (after year 10K)")

\* C9: the microsecond after datetime.max of UTC was loaded five hours
\* behind UTC.
C9_Witness ==
    /\ out.op = "TimestamptzBinaryLoader.load"
    /\ out.arg = pack_int8(WAdd(MaxMicros, W(1)))
    /\ self.timezone = FixedTz(OffsetOfSeconds(-18000))
    /\ Returned(out.ret)


\* The days the months fold into: s * (30 * (|months| mod 12) + 365 *
\* (|months| div 12)), s the sign of months.
FoldedMonths(months) ==
    LET a == IF WIsNeg(months) THEN WNeg(months) ELSE months
        ym == WDivMod(a, 12)
        fold == WAdd(W(30 * ym.r), WMul(ym.q, 365))
    IN  IF WIsNeg(months) THEN WNeg(fold) ELSE fold

\* The days of the duration of microseconds micros plus D days, normalised.
DurationDays(micros, D) == WAdd(D, WDivMod(WDivMod(micros, 1000000).q, 86400).q)
DurationInRange(micros, D) ==
    /\ WLeq(W(0 - MAX_DELTA_DAYS), DurationDays(micros, D))
    /\ WLeq(DurationDays(micros, D), W(MAX_DELTA_DAYS))

\* The duration of microseconds micros plus D days.
DurationOf(micros, D) ==
    Timedelta(WInt(DurationDays(micros, D)),
              WDivMod(WDivMod(micros, 1000000).q, 86400).r,
              WDivMod(micros, 1000000).r)

\* The days of the load are the days of the wire plus the folded months,
\* and the folded months of -months are the negative of those of months,
\* whatever the sign of the days.
FoldsBySignOfMonths(u) ==
    /\ \A d \in {u.days, WNeg(u.days)} :
           /\ WSub(IntervalBinaryLoader_days(d, u.months), d) = FoldedMonths(u.months)
           /\ WSub(IntervalBinaryLoader_days(d, WNeg(u.months)), d)
                  = WNeg(FoldedMonths(u.months))

DateStyleRecognized(c) ==
    get_datestyle(c) \in {DS_ISO_DMY, DS_ISO_MDY, DS_GERMAN, DS_SQL_DMY, DS_SQL_MDY,
                          DS_PG_DMY, DS_PG_MDY}
IntervalStyleRecognized(c) ==
    ~c.some \/ c.IntervalStyle \in {IS_POSTGRES, IS_SQL_STANDARD, IS_ISO_8601,
                                     IS_PG_VERBOSE}

\* The style that governs the class cls was recognized in the connection c.
StyleRecognized(cls, c) ==
    /\ cls \in {"DateLoader", "TimestampLoader", "TimestamptzLoader"}
           => DateStyleRecognized(c)
    /\ cls = "IntervalLoader" => IntervalStyleRecognized(c)

StyleLoaders == {"DateLoader", "TimestampLoader", "TimestamptzLoader", "IntervalLoader"}

\* C5 as stated: the constructor of each of the four style-dependent
\* loaders fails with InterfaceError on a connection whose style is not of
\* the enumeration, so that no such loader exists to fail at a load.
C5_FailsAtConstruction ==
    /\ \A cls \in StyleLoaders :
           out.op = cls \o ".__init__" /\ ~StyleRecognized(cls, ctor)
               => out.ret.exc = "InterfaceError"
    /\ self.cls \in StyleLoaders => StyleRecognized(self.cls, ctor)

\* C5: a TimestamptzLoader constructed under the DateStyle "Xyz" failed at
\* its load, with NotImplementedError.
C5_Witness ==
    /\ out.op = "TimestamptzLoader.load"
    /\ ctor.some /\ ctor.DateStyle = DS_UNKNOWN
    /\ out.ret.exc = "NotImplementedError"

\* The load of the loader this of the text data, with the connection as it
\* was in c.
LoadAsOf(b, this, c, data) ==
    CASE this.cls = "DateLoader" -> DateLoader_load(b, this, data)
      [] this.cls = "TimestampLoader" -> TimestampLoader_load(b, this, data)
      [] this.cls = "TimestamptzLoader" -> TimestamptzLoader_call(b, this, c, data)
      [] this.cls = "IntervalLoader" -> IntervalLoader_call(this, c, data)

\* C6 as stated: what a load returns or raises, the style an error reports
\* included, is what it would with the connection as it was when the loader
\* was constructed, whatever the styles of the connection are at the call.
C6_SnapshotOnly ==
    out.op \in {cls \o ".load" : cls \in StyleLoaders} =>
        out.ret = LoadAsOf(build, self, ctor, out.arg)

\* C6: a TimestamptzLoader constructed under the DateStyle "SQL, MDY"
\* reported the DateStyle "ISO, DMY", which the connection had at the load.
C6_Witness ==
    /\ out.op = "TimestamptzLoader.load"
    /\ ctor.some /\ ctor.DateStyle = DS_SQL_MDY
    /\ out.ret.exc = "NotImplementedError" /\ out.ret.val.DateStyle = DS_ISO_DMY

\* "%+d" of the claim: the sign, then the digits.
ExplicitSign(n) == (IF n < 0 THEN <<"-">> ELSE <<"+">>) \o DecStr(Abs(n))

\* C10: a TimedeltaDumper constructed on a connection whose IntervalStyle
\* was sql_standard dumps every timedelta as "<sign>D day <sign>S second
\* <sign>F microsecond"; one constructed under another style or without a
\* connection dumps str(td), which has no sign but the "-" of negative
\* days; the IntervalStyle of the connection at the dump does not matter.
C10_SqlStandardSigns ==
    out.op = "TimedeltaDumper.dump" =>
        LET td == out.arg
        IN  IF ctor.some /\ ctor.IntervalStyle = IS_SQL_STANDARD
            THEN out.ret = Return(ExplicitSign(td.days) \o LIT_DAY \o <<" ">>
                                  \o ExplicitSign(td.seconds) \o LIT_SECOND \o <<" ">>
                                  \o ExplicitSign(td.microseconds) \o LIT_MICROSECOND)
            ELSE /\ out.ret = Return(timedelta_str(td))
                 /\ \A i \in 1..Len(out.ret.val) : out.ret.val[i] # "+"
                 /\ \A i \in 2..Len(out.ret.val) : out.ret.val[i] # "-"

\* C10: -1 day, 1 second was dumped with its three signs by a dumper
\* constructed under sql_standard, after the connection left that style.
C10_Witness ==
    /\ out.op = "TimedeltaDumper.dump"
    /\ out.arg = Timedelta(-1, 1, 0)
    /\ conn.IntervalStyle # IS_SQL_STANDARD
    /\ out.ret = Return(<<"-", "1", " ", "d", "a", "y", " ", "+", "1", " ", "s", "e", "c", "o", "n", "d", " ", "+", "0", " ", "m", "i", "c", "r", "o", "s", "e", "c", "o", "n", "d">>)

\* The loaders of the module.
Loaders ==
    {"DateLoader", "DateBinaryLoader", "TimeLoader", "TimeBinaryLoader",
     "TimetzLoader", "TimetzBinaryLoader", "TimestampLoader",
     "TimestampBinaryLoader", "TimestamptzLoader", "TimestamptzBinaryLoader",
     "IntervalLoader", "IntervalBinaryLoader"}

\* C11 as stated: a load of any loader of the module returns a value or
\* raises DataError or NotImplementedError; no other error leaves a load,
\* whatever the text and whatever the bytes of the field's width.
C11_ClassifiedErrors ==
    out.op \in {cls \o ".load" : cls \in Loaders} =>
        \/ Returned(out.ret)
        \/ out.ret.exc \in {"DataError", "NotImplementedError"}

\* The three fields DateLoader.load slices from data under an order: year,
\* month, day.
DateLoaderFields(order, data) ==
    IF order = ORDER_YMD
    THEN <<Slice(data, 0, 4), Slice(data, 5, 7), SliceFrom(data, 8)>>
    ELSE IF order = ORDER_DMY
    THEN <<SliceFrom(data, 6), Slice(data, 3, 5), Slice(data, 0, 2)>>
    ELSE <<SliceFrom(data, 6), Slice(data, 0, 2), Slice(data, 3, 5)>>

\* C12 as stated: under every order, DateLoader.load of bytes whose length
\* is not 10, or of which one of the three sliced fields is not an integer,
\* raises DataError; so no date is returned for a length other than 10.
C12_LengthTenOrParseError ==
    out.op = "DateLoader.load" =>
        LET f == DateLoaderFields(self.order, out.arg)
        IN  (Len(out.arg) # 10 \/ \E i \in 1..3 : ~Returned(py_int(f[i])))
                => out.ret.exc = "DataError"

\* The value carries an offset from UTC.
CarriesOffset(obj) == obj.tzinfo # NoTz

\* C13: get_key of a dumper of time returns the tuple (self.cls,) exactly
\* for the values that carry an offset, and self.cls for the others;
\* upgrade of TimeDumper returns a TimeTzDumper, and of TimeBinaryDumper a
\* TimeTzBinaryDumper, for the same class exactly for those values, and the
\* dumper itself for the others.  get_key of a dumper of datetime returns
\* the tuple exactly for the values that carry no offset; upgrade of
\* DatetimeDumper returns a DatetimeNoTzDumper, and of DatetimeBinaryDumper
\* a DatetimeNoTzBinaryDumper, exactly for those values, and the dumper
\* itself for the others.
C13_UpgradePerValue ==
    LET obj == out.arg
        other(name) == Return([cls |-> name, pycls |-> self.pycls])
    IN  /\ out.op = "get_key" /\ self.cls \in TimeDumpers =>
               out.ret = IF CarriesOffset(obj) THEN Return(<<self.pycls>>)
                         ELSE Return(self.pycls)
        /\ out.op = "get_key" /\ self.cls \in DatetimeDumpers =>
               out.ret = IF CarriesOffset(obj) THEN Return(self.pycls)
                         ELSE Return(<<self.pycls>>)
        /\ out.op = "upgrade" /\ self.cls = "TimeDumper" =>
               out.ret = IF CarriesOffset(obj) THEN other("TimeTzDumper")
                         ELSE Return(self)
        /\ out.op = "upgrade" /\ self.cls = "TimeBinaryDumper" =>
               out.ret = IF CarriesOffset(obj) THEN other("TimeTzBinaryDumper")
                         ELSE Return(self)
        /\ out.op = "upgrade" /\ self.cls = "DatetimeDumper" =>
               out.ret = IF CarriesOffset(obj) THEN Return(self)
                         ELSE other("DatetimeNoTzDumper")
        /\ out.op = "upgrade" /\ self.cls = "DatetimeBinaryDumper" =>
               out.ret = IF CarriesOffset(obj) THEN Return(self)
                         ELSE other("DatetimeNoTzBinaryDumper")

\* C13: a TimeDumper asked about a time at the offset zero returned a
\* TimeTzDumper for the class time.
C13_Witness ==
    /\ out.op = "upgrade"
    /\ self.cls = "TimeDumper"
    /\ out.arg.tzinfo = utc
    /\ out.ret = Return([cls |-> "TimeTzDumper", pycls |-> "time"])

\* The datetime in UTC of the fields g of a timestamptz text, the offset of
\* the text, and the datetime moved to the timezone tz: what datetime(),
\* timedelta() and (dt - tzoff).astimezone(tz) return or raise.
ParsedUtc(b, g) ==
    datetime_call(b, py_int(g[1]).val, py_int(g[2]).val, py_int(g[3]).val,
                  py_int(g[4]).val, py_int(g[5]).val, py_int(g[6]).val,
                  fraction_micros(g[7]), utc)
ParsedOffset(g) == timedelta_new(W(0), offset_seconds(g[8], g[9], g[10], g[11], TRUE), W(0))
Converted(dt, tzoff, tz) ==
    LET shifted == datetime_add(dt, timedelta_neg(tzoff))
    IN  IF Returned(shifted) THEN astimezone(shifted.val, tz) ELSE shifted

\* C14 as stated: TimestamptzLoader.load of a text in ISO format fails only
\* when the datetime in UTC of its fields cannot be constructed; when it
\* can and subtracting the offset or converting to the connection's
\* timezone overflows, the load returns the fields of the text at the
\* offset of the text.
C14_RescueNeverFails ==
    out.op = "TimestamptzLoader.load" /\ self.load = "load" =>
        LET m == TimestamptzLoader_re_format(out.arg)
            dt == ParsedUtc(build, m.groups)
            tzoff == ParsedOffset(m.groups)
        IN  m.ok /\ Returned(tzoff) =>
                /\ Returned(out.ret) <=> Returned(dt)
                /\ Returned(dt) /\ ~Returned(Converted(dt.val, tzoff.val, self.timezone))
                       => out.ret = Return(replace_tzinfo(dt.val, FixedTz(tzoff.val)))

=============================================================================
